---- MODULE Spec2Model ----
(***************************************************************************)
(* Model of the trajectory analyzer (src/analysis/trajectory.py), of the   *)
(* thrash detector (src/analysis/coordination.py), of the ingestion        *)
(* (src/build_db.py) and of the gource log (src/generate_gource_log.py).   *)
(*                                                                         *)
(* Numbers that are Python floats in the source (ratios, distances,        *)
(* estimated minutes) are exact rationals here: a pair <<n, d>> with       *)
(* d > 0, compared by cross-multiplication.                                *)
(***************************************************************************)
EXTENDS Integers, Sequences, FiniteSets, TLC

VARIABLES
    pc,                 \* position of the running function
    commit_hashes,      \* trajectory.py: the list commits_touching_file returned
    sampled,            \* trajectory.py: commit_hashes after the sampling block
    metrics,            \* trajectory.py: decrease_ratio, oscillation_rate, net_progress
    classification,     \* trajectory.py: the label chosen for the file
    failed,             \* trajectory.py: the sampled commits whose lookup raised RuntimeError
    head_files,         \* trajectory.py: set(list_files_at_head())
    mod_rows,           \* trajectory.py: rows of the GROUP BY query (file_path, mods)
    top_n,              \* trajectory.py: the parameter of run_trajectory_analysis
    target_files,       \* trajectory.py: the selected (fpath, mods) pairs
    file_no,            \* trajectory.py: how many iterations of the file loop have run
    results,            \* trajectory.py: file_path -> result dict
    git_log,            \* the list commits_touching_file returned for each file so far
    clock,              \* the analyzed log: its number of commits and its real duration
    rows,               \* coordination.py: the rows the touch query returned
    file_touches,       \* coordination.py: the rows grouped by file, in row order
    pair_no,            \* coordination.py: how many (file, i) iterations have run
    thrash_incidents,   \* coordination.py: list of incident records
    rapid_overwrites,   \* coordination.py: list of rapid overwrite records
    file_thrash_counts, \* coordination.py: defaultdict(int), path -> incidents
    total_file_touches, \* coordination.py: the returned sum of len(touches)
    text_a,             \* normalized_edit_distance: the argument a
    text_b,             \* normalized_edit_distance: the argument b
    dist,               \* normalized_edit_distance: the returned value
    distance_list,      \* trajectory.py: distances = [t[2] for t in trajectory]
    raw,                \* build_db.py: the text run_git_log returned, as lines and delimiters
    block_no,           \* build_db.py: how many iterations of parse_commits' block loop have run
    commits,            \* build_db.py: the list of commit dicts
    commit_id,          \* build_db.py: insert_commits' counter of commits rows
    file_id,            \* build_db.py: insert_commits' counter of commit_files rows
    batch_start,        \* build_db.py: i of range(0, len(commits), batch_size), 0-based
    commits_table,      \* build_db.py: the committed rows of table commits
    commit_files_table, \* build_db.py: the committed rows of table commit_files
    rewrite_count,      \* generate_gource_log.py: file_path -> heavy rewrites (pass 1)
    file_last_rewrite,  \* generate_gource_log.py: file_path -> hash of its last heavy rewrite
    eureka_set,         \* generate_gource_log.py: set of (file_path, commit_hash)
    hard_problem_files, \* generate_gource_log.py: number of files with enough rewrites
    seen_files,         \* generate_gource_log.py: files currently drawn
    lines,              \* generate_gource_log.py: the entries written so far
    eureka_timestamps,  \* generate_gource_log.py: timestamps for the captions
    eureka_seen,        \* generate_gource_log.py: files whose eureka timestamp is recorded
    row_no              \* generate_gource_log.py: how many rows pass 2 has handled

trajVars == <<commit_hashes, sampled, metrics, classification, failed, head_files,
              mod_rows, top_n, target_files, file_no, results, git_log>>

\* the variables of the file loop other than the locals of the sampling and
\* classification blocks
runVars == <<head_files, mod_rows, top_n, target_files, file_no, results, git_log>>

coordVars == <<clock, rows, file_touches, pair_no, thrash_incidents,
               rapid_overwrites, file_thrash_counts, total_file_touches>>

\* the arguments and the value of the functions that are applied on their own
fnVars == <<text_a, text_b, dist, distance_list>>

\* build_db.py: parse_commits and insert_commits
ingestVars == <<raw, block_no, commits, commit_id, file_id, batch_start,
                commits_table, commit_files_table>>

\* generate_gource_log.py: main (it also has rows, the result of its query)
gourceVars == <<rewrite_count, file_last_rewrite, eureka_set, hard_problem_files,
                seen_files, lines, eureka_timestamps, eureka_seen, row_no>>

vars == <<pc, trajVars, coordVars, fnVars, ingestVars, gourceVars>>

(***************************************************************************)
(* Rationals                                                               *)
(***************************************************************************)
RECURSIVE GCD(_, _)
GCD(a, b) == IF b = 0 THEN a ELSE GCD(b, a % b)

Abs(n) == IF n < 0 THEN 0 - n ELSE n

\* n/d in lowest terms (a float has one representation of each value)
Rat(n, d) ==
    LET g == GCD(Abs(n), d)
    IN  <<n \div g, d \div g>>

RLess(a, b) == a[1] * b[2] < b[1] * a[2]

RLeq(a, b) == a[1] * b[2] <= b[1] * a[2]

RGreater(a, b) == RLess(b, a)

REq(a, b) == a[1] * b[2] = b[1] * a[2]

RSub(a, b) == Rat(a[1] * b[2] - b[1] * a[2], a[2] * b[2])

RZero == <<0, 1>>

ROne == <<1, 1>>

(***************************************************************************)
(* Bounds                                                                  *)
(***************************************************************************)
\* longest list of touching commits the sampling block is applied to
MaxCommits == 120

\* the classification inputs are the multiples of 1/GridDen
GridDen == 20

(***************************************************************************)
(* Sampling block of run_trajectory_analysis                               *)
(***************************************************************************)
\* if len(commit_hashes) > 50
SampleThreshold == 50

\* step = len(commit_hashes) // 50
SampleDivisor == 50

None == "None"

Contains(seq, x) == \E k \in DOMAIN seq : seq[k] = x

Last(seq) == seq[Len(seq)]

\* seq[::step]: the elements at the 0-based indices 0, step, 2*step, ...
Stride(seq, step) ==
    [k \in 1..((Len(seq) + step - 1) \div step) |-> seq[(k - 1) * step + 1]]

SampleStep(hashes) == Len(hashes) \div SampleDivisor

SampleNoForcedFinal(hashes) ==
    IF Len(hashes) > SampleThreshold
    THEN Stride(hashes, SampleStep(hashes))
    ELSE hashes

SampleCommits(hashes) ==
    IF Len(hashes) > SampleThreshold
    THEN LET strided == Stride(hashes, SampleStep(hashes))
         IN  IF ~Contains(strided, Last(hashes))
             THEN Append(strided, Last(hashes))
             ELSE strided
    ELSE hashes

(***************************************************************************)
(* Classification block of run_trajectory_analysis                         *)
(***************************************************************************)
LearningDecreaseRatio == Rat(6, 10)

LearningNetProgress == Rat(1, 10)

ThrashingOscillationRate == Rat(5, 10)

ThrashingNetProgress == Rat(1, 10)

ClassifyThrashingFirst(decrease_ratio, oscillation_rate, net_progress) ==
    IF RGreater(oscillation_rate, ThrashingOscillationRate)
        \/ RLeq(net_progress, ThrashingNetProgress)
    THEN "thrashing"
    ELSE IF RGreater(decrease_ratio, LearningDecreaseRatio)
             /\ RGreater(net_progress, LearningNetProgress)
         THEN "learning"
         ELSE "mixed"

ClassifyInclusiveBounds(decrease_ratio, oscillation_rate, net_progress) ==
    IF RLeq(LearningDecreaseRatio, decrease_ratio)
        /\ RGreater(net_progress, LearningNetProgress)
    THEN "learning"
    ELSE IF RGreater(oscillation_rate, ThrashingOscillationRate)
             \/ RLess(net_progress, ThrashingNetProgress)
         THEN "thrashing"
         ELSE "mixed"

Classify(decrease_ratio, oscillation_rate, net_progress) ==
    IF RGreater(decrease_ratio, LearningDecreaseRatio)
        /\ RGreater(net_progress, LearningNetProgress)
    THEN "learning"
    ELSE IF RGreater(oscillation_rate, ThrashingOscillationRate)
             \/ RLeq(net_progress, ThrashingNetProgress)
         THEN "thrashing"
         ELSE "mixed"

(***************************************************************************)
(* normalized_edit_distance.  A text is a sequence of characters; NL is    *)
(* the line break.                                                         *)
(***************************************************************************)
NL == "\n"

\* str.splitlines(): every line break ends a line; what follows the last line
\* break is a line when it is not empty
RECURSIVE SplitLinesFrom(_, _, _)
SplitLinesFrom(text, line, acc) ==
    IF text = << >>
    THEN IF line = << >> THEN acc ELSE Append(acc, line)
    ELSE IF Head(text) = NL
         THEN SplitLinesFrom(Tail(text), << >>, Append(acc, line))
         ELSE SplitLinesFrom(Tail(text), Append(line, Head(text)), acc)

SplitLines(text) == SplitLinesFrom(text, << >>, << >>)

\* the blocks a[i..i+k-1] = b[j..j+k-1], as <<i, j, k>>
MatchingBlocks(a, b) ==
    {blk \in (1..Len(a)) \X (1..Len(b)) \X (1..Len(a)) :
        /\ blk[1] + blk[3] - 1 <= Len(a)
        /\ blk[2] + blk[3] - 1 <= Len(b)
        /\ \A t \in 0..(blk[3] - 1) : a[blk[1] + t] = b[blk[2] + t]}

\* SequenceMatcher.find_longest_match: the longest block; of those, the one
\* starting earliest in a; of those, the one starting earliest in b
LongestMatch(a, b) ==
    CHOOSE blk \in MatchingBlocks(a, b) :
        \A other \in MatchingBlocks(a, b) :
            \/ other[3] < blk[3]
            \/ other[3] = blk[3] /\ other[1] > blk[1]
            \/ other[3] = blk[3] /\ other[1] = blk[1] /\ other[2] >= blk[2]

\* every pair of equal lines counted, whatever the alignment
MatchedLinesAnyPair(a, b) ==
    Cardinality({pos \in (1..Len(a)) \X (1..Len(b)) : a[pos[1]] = b[pos[2]]})

\* SequenceMatcher.get_matching_blocks: the number of matched elements, found
\* by the longest match and then the pieces at its left and at its right
RECURSIVE MatchedLines(_, _)
MatchedLines(a, b) ==
    IF MatchingBlocks(a, b) = {} THEN 0
    ELSE LET blk == LongestMatch(a, b)
         IN  blk[3]
             + MatchedLines(SubSeq(a, 1, blk[1] - 1), SubSeq(b, 1, blk[2] - 1))
             + MatchedLines(SubSeq(a, blk[1] + blk[3], Len(a)),
                            SubSeq(b, blk[2] + blk[3], Len(b)))

\* 1.0 - SequenceMatcher(None, a.splitlines(), b.splitlines()).ratio()
\* with ratio = 2.0 * matches / (len(a) + len(b))
LineDistance(a, b) ==
    LET la == SplitLines(a)
        lb == SplitLines(b)
        total == Len(la) + Len(lb)
    IN  IF total = 0 THEN RZero
        ELSE Rat(total - 2 * MatchedLines(la, lb), total)

\* the test for an empty side made before the test for equal texts
NormalizedEmptyFirst(a, b) ==
    IF a = << >> \/ b = << >> THEN ROne
    ELSE IF a = b THEN RZero
    ELSE LineDistance(a, b)

\* one empty side taken for two empty sides
NormalizedEmptyAsEqual(a, b) ==
    IF a = b THEN RZero
    ELSE IF a = << >> \/ b = << >> THEN RZero
    ELSE LineDistance(a, b)

normalized_edit_distance(a, b) ==
    IF a = b THEN RZero
    ELSE IF a = << >> /\ b = << >> THEN RZero
    ELSE IF a = << >> \/ b = << >> THEN ROne
    ELSE LineDistance(a, b)

(***************************************************************************)
(* The analysis of one trajectory (lines 106-121)                          *)
(***************************************************************************)
\* deltas = [distances[k+1] - distances[k] ...]
Deltas(distances) ==
    [k \in 1..(Len(distances) - 1) |-> RSub(distances[k + 1], distances[k])]

RNegative(a) == a[1] < 0

RPositive(a) == a[1] > 0

\* the deltas that are zero counted as decreases
DecreaseRatioNonIncreasing(deltas) ==
    IF Len(deltas) > 0
    THEN Rat(Cardinality({k \in DOMAIN deltas : ~RPositive(deltas[k])}), Len(deltas))
    ELSE RZero

\* monotonic_decreases / total_transitions if total_transitions else 0
DecreaseRatio(deltas) ==
    IF Len(deltas) > 0
    THEN Rat(Cardinality({k \in DOMAIN deltas : RNegative(deltas[k])}), Len(deltas))
    ELSE RZero

\* the direction changes divided by the number of deltas
OscillationRateOverDeltas(deltas) ==
    IF Len(deltas) > 1
    THEN Rat(Cardinality({k \in 2..Len(deltas) :
                             \/ RPositive(deltas[k]) /\ RNegative(deltas[k - 1])
                             \/ RNegative(deltas[k]) /\ RPositive(deltas[k - 1])}),
             Len(deltas))
    ELSE RZero

\* the direction changes counted after the zero deltas are dropped: a rise
\* and a fall with a plateau in between count as one change
OscillationRateAcrossZeros(deltas) ==
    IF Len(deltas) > 1
    THEN LET moves == SelectSeq(deltas, LAMBDA d : d[1] # 0)
         IN  Rat(Cardinality({k \in 2..Len(moves) :
                                 RPositive(moves[k]) # RPositive(moves[k - 1])}),
                 Len(deltas) - 1)
    ELSE RZero

\* direction_changes / (len(deltas) - 1) if len(deltas) > 1 else 0
OscillationRate(deltas) ==
    IF Len(deltas) > 1
    THEN Rat(Cardinality({k \in 2..Len(deltas) :
                             \/ RPositive(deltas[k]) /\ RNegative(deltas[k - 1])
                             \/ RNegative(deltas[k]) /\ RPositive(deltas[k - 1])}),
             Len(deltas) - 1)
    ELSE RZero

\* net_progress = distances[0] - distances[-1]
NetProgress(distances) == RSub(distances[1], distances[Len(distances)])

Metrics(distances) ==
    [decrease_ratio |-> DecreaseRatio(Deltas(distances)),
     oscillation_rate |-> OscillationRate(Deltas(distances)),
     net_progress |-> NetProgress(distances)]

(***************************************************************************)
(* SpecSample: the sampling block applied to every list of touching        *)
(* commits of length 0..MaxCommits.  The hashes of one `git log` are       *)
(* pairwise distinct; the i-th hash of the list is named i.                *)
(***************************************************************************)
HashList(n) == [i \in 1..n |-> i]

\* the file loop of run_trajectory_analysis is not running
RunIdle ==
    /\ head_files = None
    /\ mod_rows = None
    /\ top_n = None
    /\ target_files = None
    /\ file_no = None
    /\ results = None
    /\ git_log = None

\* the thrash detector is not running
CoordIdle ==
    /\ clock = None
    /\ rows = None
    /\ file_touches = None
    /\ pair_no = None
    /\ thrash_incidents = None
    /\ rapid_overwrites = None
    /\ file_thrash_counts = None
    /\ total_file_touches = None

\* no function is being applied on its own
FnIdle ==
    /\ text_a = None
    /\ text_b = None
    /\ dist = None
    /\ distance_list = None

IngestIdle ==
    /\ raw = None
    /\ block_no = None
    /\ commits = None
    /\ commit_id = None
    /\ file_id = None
    /\ batch_start = None
    /\ commits_table = None
    /\ commit_files_table = None

GourceIdle ==
    /\ rewrite_count = None
    /\ file_last_rewrite = None
    /\ eureka_set = None
    /\ hard_problem_files = None
    /\ seen_files = None
    /\ lines = None
    /\ eureka_timestamps = None
    /\ eureka_seen = None
    /\ row_no = None

SampleInit ==
    /\ pc = "sample"
    /\ commit_hashes \in {HashList(n) : n \in 0..MaxCommits}
    /\ sampled = None
    /\ metrics = None
    /\ classification = None
    /\ failed = None
    /\ RunIdle
    /\ CoordIdle
    /\ FnIdle

    /\ IngestIdle
    /\ GourceIdle
SampleStepAction ==
    /\ pc = "sample"
    /\ sampled' = SampleCommits(commit_hashes)
    /\ pc' = "sampled"
    /\ UNCHANGED <<failed, commit_hashes, metrics, classification, runVars, coordVars, fnVars>>

    /\ UNCHANGED <<ingestVars, gourceVars>>
SampleNext == SampleStepAction

SpecSample == SampleInit /\ [][SampleNext]_vars

(***************************************************************************)
(* SpecClassify: the classification block applied to every triple of the   *)
(* grid of multiples of 1/GridDen.                                         *)
(***************************************************************************)
UnitGrid == {Rat(n, GridDen) : n \in 0..GridDen}

SignedGrid == {Rat(n, GridDen) : n \in (0 - GridDen)..GridDen}

ClassifyInit ==
    /\ pc = "classify"
    /\ commit_hashes = None
    /\ sampled = None
    /\ metrics \in [decrease_ratio : UnitGrid,
                    oscillation_rate : UnitGrid,
                    net_progress : SignedGrid]
    /\ classification = None
    /\ failed = None
    /\ RunIdle
    /\ CoordIdle
    /\ FnIdle

    /\ IngestIdle
    /\ GourceIdle
ClassifyAction ==
    /\ pc = "classify"
    /\ classification' = Classify(metrics.decrease_ratio,
                                  metrics.oscillation_rate,
                                  metrics.net_progress)
    /\ pc' = "classified"
    /\ UNCHANGED <<failed, commit_hashes, sampled, metrics, runVars, coordVars, fnVars>>

    /\ UNCHANGED <<ingestVars, gourceVars>>
ClassifyNext == ClassifyAction

SpecClassify == ClassifyInit /\ [][ClassifyNext]_vars

(***************************************************************************)
(* run_coordination_analysis (src/analysis/coordination.py)                *)
(***************************************************************************)
THRASH_WINDOW_MINUTES == 30

RAPID_OVERWRITE_MINUTES == 10

RAPID_OVERWRITE_RATIO == Rat(5, 10)

\* the literal 14 * 24 * 60 / 3982 of the estimate
MinutesPerCommit == Rat(14 * 24 * 60, 3982)

RMul(a, b) == Rat(a[1] * b[1], a[2] * b[2])

RInt(n) == <<n, 1>>

\* approx_minutes = commit_delta * (14 * 24 * 60 / 3982)
\* ApproxMinutes with the scale taken from the analyzed log (its duration over
\* its number of commits) instead of the literal of line 13
ApproxMinutesFromLog(commit_delta) ==
    RMul(RInt(commit_delta), Rat(clock.minutes, clock.commits))

ApproxMinutes(commit_delta) == RMul(RInt(commit_delta), MinutesPerCommit)

IsThrashIncidentRapidWindow(approx_minutes) ==
    RLess(approx_minutes, RInt(RAPID_OVERWRITE_MINUTES))

\* if approx_minutes < THRASH_WINDOW_MINUTES
IsThrashIncident(approx_minutes) ==
    RLess(approx_minutes, RInt(THRASH_WINDOW_MINUTES))

IsRapidOverwriteThrashWindow(approx_minutes, prev, curr) ==
    /\ RLess(approx_minutes, RInt(THRASH_WINDOW_MINUTES))
    /\ prev.insertions > 0
    /\ RGreater(RInt(curr.deletions),
                RMul(RAPID_OVERWRITE_RATIO, RInt(prev.insertions)))

IsRapidOverwriteInclusiveRatio(approx_minutes, prev, curr) ==
    /\ RLess(approx_minutes, RInt(RAPID_OVERWRITE_MINUTES))
    /\ prev.insertions > 0
    /\ RLeq(RMul(RAPID_OVERWRITE_RATIO, RInt(prev.insertions)),
            RInt(curr.deletions))

\* the condition of the nested if (lines 70-72)
IsRapidOverwrite(approx_minutes, prev, curr) ==
    /\ RLess(approx_minutes, RInt(RAPID_OVERWRITE_MINUTES))
    /\ prev.insertions > 0
    /\ RGreater(RInt(curr.deletions),
                RMul(RAPID_OVERWRITE_RATIO, RInt(prev.insertions)))

\* the dict appended to thrash_incidents ("type", a function of the path
\* alone, is left out)
ThrashIncident(fpath, prev, curr, approx_minutes) ==
    [file_path |-> fpath,
     prev_hash |-> prev.hash,
     curr_hash |-> curr.hash,
     prev_commit_id |-> prev.commit_id,
     curr_commit_id |-> curr.commit_id,
     delta_minutes |-> approx_minutes,
     prev_insertions |-> prev.insertions,
     curr_deletions |-> curr.deletions]

\* the dict appended to rapid_overwrites
RapidOverwrite(fpath, prev, curr, approx_minutes) ==
    [file_path |-> fpath,
     prev_hash |-> prev.hash,
     curr_hash |-> curr.hash,
     delta_minutes |-> approx_minutes,
     prev_insertions |-> prev.insertions,
     curr_deletions |-> curr.deletions]

\* the dict appended to file_touches[fpath] (the date, which nothing reads,
\* is left out)
Touch(row) ==
    [hash |-> row.hash,
     insertions |-> row.insertions,
     deletions |-> row.deletions,
     commit_id |-> row.commit_id]

\* GroupRows without the per-file key: every row joins the touches of the
\* first row's path
RECURSIVE GroupRowsSingleGroup(_, _)
GroupRowsSingleGroup(rs, groups) ==
    IF rs = << >> THEN groups
    ELSE IF groups = << >>
         THEN GroupRowsSingleGroup(Tail(rs),
                  <<[file_path |-> Head(rs).file_path,
                     touches |-> <<Touch(Head(rs))>>]>>)
         ELSE GroupRowsSingleGroup(Tail(rs),
                  [groups EXCEPT ![1].touches = Append(@, Touch(Head(rs)))])

\* lines 30-39: group the rows by file; a dict keeps its keys in the order
\* of their first insertion
RECURSIVE GroupRows(_, _)
GroupRows(rs, groups) ==
    IF rs = << >> THEN groups
    ELSE LET row == Head(rs)
             known == {g \in DOMAIN groups : groups[g].file_path = row.file_path}
         IN  IF known = {}
             THEN GroupRows(Tail(rs),
                      Append(groups, [file_path |-> row.file_path,
                                      touches |-> <<Touch(row)>>]))
             ELSE LET g == CHOOSE x \in known : TRUE
                  IN  GroupRows(Tail(rs),
                          [groups EXCEPT ![g].touches = Append(@, Touch(row))])

\* the (file, i) iterations of the two nested loops, in order
RECURSIVE PairPositions(_, _)
PairPositions(groups, g) ==
    IF g > Len(groups) THEN << >>
    ELSE [i \in 1..(Len(groups[g].touches) - 1) |-> <<g, i + 1>>]
         \o PairPositions(groups, g + 1)

RECURSIVE SumTouches(_, _)
SumTouches(groups, g) ==
    IF g > Len(groups) THEN 0
    ELSE Len(groups[g].touches) + SumTouches(groups, g + 1)

\* Increment as an assignment: file_thrash_counts[fpath] = 1
IncrementOverwrite(counts, fpath) ==
    [p \in DOMAIN counts \cup {fpath} |->
        IF p = fpath THEN 1 ELSE counts[p]]

\* file_thrash_counts[fpath] += 1 on a defaultdict(int)
Increment(counts, fpath) ==
    IF fpath \in DOMAIN counts
    THEN [counts EXCEPT ![fpath] = @ + 1]
    ELSE [p \in DOMAIN counts \cup {fpath} |->
             IF p = fpath THEN 1 ELSE counts[p]]

EmptyDict == [p \in {} |-> 0]

\* lines 19-43: the query, the grouping, the empty outputs
LoadTouches ==
    /\ pc = "coord_query"
    /\ file_touches' = GroupRows(rows, << >>)
    /\ thrash_incidents' = << >>
    /\ rapid_overwrites' = << >>
    /\ file_thrash_counts' = EmptyDict
    /\ pair_no' = 0
    /\ pc' = "coord_scan"
    /\ UNCHANGED <<trajVars, fnVars, clock, rows, total_file_touches>>

    /\ UNCHANGED <<ingestVars, gourceVars>>
\* ScanPair with the inner loop started at range(0, len(touches)): the first
\* iteration of a file reads touches[-1], its last touch, as prev
ScanPairFromFirstTouch ==
    /\ pc = "coord_scan"
    /\ pair_no < Len(PairPositions(file_touches, 1))
    /\ LET pos == PairPositions(file_touches, 1)[pair_no + 1]
           fpath == file_touches[pos[1]].file_path
           touches == file_touches[pos[1]].touches
           i == pos[2] - 2
           prev == touches[IF i = 0 THEN Len(touches) ELSE i]
           curr == touches[i + 1]
           commit_delta == curr.commit_id - prev.commit_id
           approx_minutes == ApproxMinutes(commit_delta)
       IN  IF IsThrashIncident(approx_minutes)
           THEN /\ thrash_incidents' =
                       Append(thrash_incidents,
                              ThrashIncident(fpath, prev, curr, approx_minutes))
                /\ file_thrash_counts' = Increment(file_thrash_counts, fpath)
                /\ IF IsRapidOverwrite(approx_minutes, prev, curr)
                   THEN rapid_overwrites' =
                            Append(rapid_overwrites,
                                   RapidOverwrite(fpath, prev, curr, approx_minutes))
                   ELSE UNCHANGED rapid_overwrites
           ELSE UNCHANGED <<thrash_incidents, file_thrash_counts, rapid_overwrites>>
    /\ pair_no' = pair_no + 1
    /\ UNCHANGED <<pc, trajVars, fnVars, clock, rows, file_touches, total_file_touches>>

    /\ UNCHANGED <<ingestVars, gourceVars>>
\* ScanPair with the rapid-overwrite test made on every pair, on the deletion
\* ratio alone
ScanPairRatioOnly ==
    /\ pc = "coord_scan"
    /\ pair_no < Len(PairPositions(file_touches, 1))
    /\ LET pos == PairPositions(file_touches, 1)[pair_no + 1]
           fpath == file_touches[pos[1]].file_path
           touches == file_touches[pos[1]].touches
           prev == touches[pos[2] - 1]
           curr == touches[pos[2]]
           commit_delta == curr.commit_id - prev.commit_id
           approx_minutes == ApproxMinutes(commit_delta)
       IN  /\ IF IsThrashIncident(approx_minutes)
              THEN /\ thrash_incidents' =
                          Append(thrash_incidents,
                                 ThrashIncident(fpath, prev, curr, approx_minutes))
                   /\ file_thrash_counts' = Increment(file_thrash_counts, fpath)
              ELSE UNCHANGED <<thrash_incidents, file_thrash_counts>>
           /\ IF /\ prev.insertions > 0
                 /\ RGreater(RInt(curr.deletions),
                             RMul(RAPID_OVERWRITE_RATIO, RInt(prev.insertions)))
              THEN rapid_overwrites' =
                       Append(rapid_overwrites,
                              RapidOverwrite(fpath, prev, curr, approx_minutes))
              ELSE UNCHANGED rapid_overwrites
    /\ pair_no' = pair_no + 1
    /\ UNCHANGED <<pc, trajVars, fnVars, clock, rows, file_touches, total_file_touches>>

    /\ UNCHANGED <<ingestVars, gourceVars>>
\* lines 46-81: one iteration of the inner loop (each value is bound once)
ScanPair ==
    /\ pc = "coord_scan"
    /\ \E positions \in {PairPositions(file_touches, 1)} :
        /\ pair_no < Len(positions)
        /\ \E pos \in {positions[pair_no + 1]} :
           \E prev \in {file_touches[pos[1]].touches[pos[2] - 1]},
              curr \in {file_touches[pos[1]].touches[pos[2]]} :
           \E approx_minutes \in {ApproxMinutes(curr.commit_id - prev.commit_id)} :
              LET fpath == file_touches[pos[1]].file_path
              IN  IF IsThrashIncident(approx_minutes)
                  THEN /\ thrash_incidents' =
                              Append(thrash_incidents,
                                     ThrashIncident(fpath, prev, curr,
                                                    approx_minutes))
                       /\ file_thrash_counts' =
                              Increment(file_thrash_counts, fpath)
                       /\ IF IsRapidOverwrite(approx_minutes, prev, curr)
                          THEN rapid_overwrites' =
                                   Append(rapid_overwrites,
                                          RapidOverwrite(fpath, prev, curr,
                                                         approx_minutes))
                          ELSE UNCHANGED rapid_overwrites
                  ELSE UNCHANGED <<thrash_incidents, file_thrash_counts,
                                   rapid_overwrites>>
    /\ pair_no' = pair_no + 1
    /\ UNCHANGED <<pc, trajVars, fnVars, clock, rows, file_touches, total_file_touches>>

    /\ UNCHANGED <<ingestVars, gourceVars>>
\* lines 83-88: the return
ReturnCoordination ==
    /\ pc = "coord_scan"
    /\ pair_no = Len(PairPositions(file_touches, 1))
    /\ total_file_touches' = SumTouches(file_touches, 1)
    /\ pc' = "coord_done"
    /\ UNCHANGED <<trajVars, fnVars, clock, rows, file_touches, pair_no,
                   thrash_incidents, rapid_overwrites, file_thrash_counts>>

    /\ UNCHANGED <<ingestVars, gourceVars>>
(***************************************************************************)
(* SpecCoord: run_coordination_analysis on every log of at most MaxRows    *)
(* touches of the files of FilePaths by the commits 1..MaxCommitId.  The   *)
(* query orders the rows by file_path, then by commits.id; commits.hash is *)
(* UNIQUE, so a hash names its commit id; commit_files has no uniqueness   *)
(* constraint, so one commit may touch a file twice.                       *)
(***************************************************************************)
MaxRows == 3

MaxCommitId == 7

\* in ORDER BY file_path order
FilePaths == <<"src/a.c", "src/b.c">>

\* (insertions, deletions) of a touch
Stats == {<<0, 1>>, <<2, 1>>, <<100, 60>>}

\* the analyzed log (what the code never reads: its number of commits and its
\* real duration): MaxCommitId commits made 10 minutes apart
AnalyzedLog == [commits |-> MaxCommitId, minutes |-> 10 * MaxCommitId]

Row(fpath, cid, st) ==
    [file_path |-> fpath, hash |-> cid, insertions |-> st[1],
     deletions |-> st[2], commit_id |-> cid]

PathIndex(fpath) == CHOOSE f \in DOMAIN FilePaths : FilePaths[f] = fpath

\* ORDER BY cf.file_path, c.id: row r may follow row q
InQueryOrder(q, r) ==
    \/ PathIndex(q.file_path) < PathIndex(r.file_path)
    \/ q.file_path = r.file_path /\ q.commit_id <= r.commit_id

\* lines 22-27: fetchall() receives the next row of the query
FetchRow ==
    /\ pc = "coord_query"
    /\ Len(rows) < MaxRows
    /\ \E f \in DOMAIN FilePaths, cid \in 1..MaxCommitId, st \in Stats :
          LET r == Row(FilePaths[f], cid, st)
          IN  /\ IF rows = << >> THEN TRUE
                 ELSE InQueryOrder(rows[Len(rows)], r)
              /\ rows' = Append(rows, r)
    /\ UNCHANGED <<pc, trajVars, fnVars, clock, file_touches, pair_no, thrash_incidents,
                   rapid_overwrites, file_thrash_counts, total_file_touches>>

    /\ UNCHANGED <<ingestVars, gourceVars>>
TrajIdle ==
    /\ commit_hashes = None
    /\ sampled = None
    /\ metrics = None
    /\ classification = None
    /\ failed = None
    /\ RunIdle

CoordInit ==
    /\ pc = "coord_query"
    /\ TrajIdle
    /\ FnIdle
    /\ clock = AnalyzedLog
    /\ rows = << >>
    /\ file_touches = None
    /\ pair_no = None
    /\ thrash_incidents = None
    /\ rapid_overwrites = None
    /\ file_thrash_counts = None
    /\ total_file_touches = None

    /\ IngestIdle
    /\ GourceIdle
CoordNext == FetchRow \/ LoadTouches \/ ScanPair \/ ReturnCoordination

SpecCoord == CoordInit /\ [][CoordNext]_vars

(***************************************************************************)
(* SpecDistance: normalized_edit_distance applied to every pair of texts   *)
(* of at most MaxTextLen characters over Alphabet.                         *)
(***************************************************************************)
MaxTextLen == 4

Alphabet == {"a", "b", NL}

TextsUpTo(n) == UNION {[1..k -> Alphabet] : k \in 0..n}

DistanceInit ==
    /\ pc = "distance"
    /\ text_a \in TextsUpTo(MaxTextLen)
    /\ text_b \in TextsUpTo(MaxTextLen)
    /\ dist = None
    /\ distance_list = None
    /\ TrajIdle
    /\ CoordIdle

    /\ IngestIdle
    /\ GourceIdle
DistanceAction ==
    /\ pc = "distance"
    /\ dist' = normalized_edit_distance(text_a, text_b)
    /\ pc' = "measured"
    /\ UNCHANGED <<text_a, text_b, distance_list, trajVars, coordVars>>

    /\ UNCHANGED <<ingestVars, gourceVars>>
DistanceNext == DistanceAction

SpecDistance == DistanceInit /\ [][DistanceNext]_vars

(***************************************************************************)
(* SpecMetrics: lines 106-129 applied to every list of MinPoints to        *)
(* MaxPoints distances that are multiples of 1/DistDen.  The block is only *)
(* reached with at least 3 trajectory points (line 103).                   *)
(***************************************************************************)
MaxPoints == 4

DistDen == 10

MinPoints == 3

DistanceGrid == {Rat(n, DistDen) : n \in 0..DistDen}

DistanceLists == UNION {[1..k -> DistanceGrid] : k \in MinPoints..MaxPoints}

MetricsInit ==
    /\ pc = "metrics"
    /\ distance_list \in DistanceLists
    /\ text_a = None
    /\ text_b = None
    /\ dist = None
    /\ TrajIdle
    /\ CoordIdle

    /\ IngestIdle
    /\ GourceIdle
MetricsAction ==
    /\ pc = "metrics"
    /\ \E m \in {Metrics(distance_list)} :
          /\ metrics' = m
          /\ classification' = Classify(m.decrease_ratio, m.oscillation_rate,
                                        m.net_progress)
    /\ pc' = "analyzed"
    /\ UNCHANGED <<failed, commit_hashes, sampled, runVars, coordVars, fnVars>>

    /\ UNCHANGED <<ingestVars, gourceVars>>
MetricsNext == MetricsAction

SpecMetrics == MetricsInit /\ [][MetricsNext]_vars

(***************************************************************************)
(* run_trajectory_analysis (src/analysis/trajectory.py)                    *)
(***************************************************************************)
TOP_N_FILES == 50

MinModifications == 3

MinTouchingCommits == 3

MinTrajectoryPoints == 3

\* the selection loop run over the rows from the last one to the first
RECURSIVE SelectTargetsLastFirst(_, _, _, _)
SelectTargetsLastFirst(rws, heads, n, targets) ==
    IF rws = << >> THEN targets
    ELSE LET row == rws[Len(rws)]
             appended == IF row.fpath \in heads /\ row.mods >= MinModifications
                         THEN Append(targets, row)
                         ELSE targets
         IN  IF Len(appended) >= n
             THEN appended
             ELSE SelectTargetsLastFirst(SubSeq(rws, 1, Len(rws) - 1), heads, n,
                                         appended)

\* lines 59-65: the selection loop over the rows of the GROUP BY query
RECURSIVE SelectTargets(_, _, _, _)
SelectTargets(rws, heads, n, targets) ==
    IF rws = << >> THEN targets
    ELSE LET row == Head(rws)
             appended == IF row.fpath \in heads /\ row.mods >= MinModifications
                         THEN Append(targets, row)
                         ELSE targets
         IN  IF Len(appended) >= n
             THEN appended
             ELSE SelectTargets(Tail(rws), heads, n, appended)

\* the contents a file has in the repository
Texts == {<< >>, <<"a", NL>>, <<"a", NL, "b", NL>>}

\* line 98: normalized_edit_distance(content, final_content), computed once
\* for each pair of contents
Distance == [a \in Texts, b \in Texts |-> normalized_edit_distance(a, b)]

\* an answer of file_at_commit: the text, or RuntimeError (git ended non-zero)
Ok(text) == [out |-> "ok", text |-> text]

Unavailable == [out |-> "error", text |-> << >>]

\* the 1-based positions of the sampled commits whose content was resolved
ResolvedPositions(hashes, lookups) ==
    SelectSeq([k \in DOMAIN hashes |-> k], LAMBDA k : lookups[hashes[k]].out = "ok")

TrajectoryPoint(hashes, lookups, k, reference) ==
    [hash |-> hashes[k],
     order |-> k - 1,
     distance |-> Distance[lookups[hashes[k]].text, reference]]

BuildTrajectoryAgainstFirst(hashes, lookups, final_content) ==
    LET kept == ResolvedPositions(hashes, lookups)
    IN  [t \in DOMAIN kept |->
            TrajectoryPoint(hashes, lookups, kept[t], lookups[hashes[kept[1]]].text)]

\* a commit whose content was not resolved recorded at distance 1.0
BuildTrajectoryFailureAsFarthest(hashes, lookups, final_content) ==
    [k \in DOMAIN hashes |->
        [hash |-> hashes[k],
         order |-> k - 1,
         distance |-> IF lookups[hashes[k]].out = "ok"
                      THEN Distance[lookups[hashes[k]].text, final_content]
                      ELSE ROne]]

\* lines 93-101: the (chash, j, dist) of every sampled commit whose content
\* was resolved, j being the 0-based position in the sampled list
BuildTrajectory(hashes, lookups, final_content) ==
    LET kept == ResolvedPositions(hashes, lookups)
    IN  [t \in DOMAIN kept |->
            TrajectoryPoint(hashes, lookups, kept[t], final_content)]

Distances(trajectory) == [t \in DOMAIN trajectory |-> trajectory[t].distance]

\* lines 131-139 ("type", a function of the path alone, is left out)
ResultOf(trajectory, mod_count) ==
    LET m == Metrics(Distances(trajectory))
    IN  [trajectory |-> trajectory,
         classification |-> Classify(m.decrease_ratio, m.oscillation_rate,
                                     m.net_progress),
         decrease_ratio |-> m.decrease_ratio,
         oscillation_rate |-> m.oscillation_rate,
         net_progress |-> m.net_progress,
         mod_count |-> mod_count]

\* a trajectory of 2 points let through
TooFewPointsBelowTwo(trajectory) == Len(trajectory) < MinTrajectoryPoints - 1

\* line 103: if len(trajectory) < 3: continue
TooFewPoints(trajectory) == Len(trajectory) < MinTrajectoryPoints

\* results[fpath] = ...
Store(dict, key, value) ==
    [k \in DOMAIN dict \cup {key} |-> IF k = key THEN value ELSE dict[k]]

(***************************************************************************)
(* Spec: run_trajectory_analysis against a repository of the files of      *)
(* FilePaths.  The repository answers each lookup when it is made: the     *)
(* answers are inputs of the step that asks.                               *)
(***************************************************************************)
\* commits of a history whose answers are enumerated in full
MaxTouches == 3

\* rows of a file in commit_files: below, at and above the threshold
ModCounts == {MinModifications - 1, MinModifications, MinModifications + 1}

\* values of the parameter: the edge cases and the default of every caller
TopNs == {0, 1, TOP_N_FILES}

CommitLookups == {Ok(t) : t \in Texts} \cup {Unavailable}

\* lengths of the longer histories: one more than the least reported; and
\* sampled ones, where the stride selects the final commit (51, 101) or does
\* not (100)
LongLens == {MinTouchingCommits + 1, SampleThreshold + 1,
             2 * SampleDivisor, 2 * SampleDivisor + 1}

HistoryLens == (0..MaxTouches) \cup LongLens

\* The answers of file_at_commit for the n commits of `git log -- fpath`,
\* oldest first.  No later commit changed the file after the last one, so
\* that commit holds the content of HEAD.  A history of more than MaxTouches
\* commits has one answer for all its commits but the last, except that its
\* third commit may be unavailable.
Histories(n, final_content) ==
    IF n = 0 THEN {<< >>}
    ELSE LET lasts == {Ok(final_content), Unavailable}
         IN  IF n <= MaxTouches
             THEN {h \in [1..n -> CommitLookups] : h[n] \in lasts}
             ELSE {[k \in 1..n |-> IF k = n THEN last
                                   ELSE IF k = 3 /\ gap THEN Unavailable
                                   ELSE rest] :
                      rest \in CommitLookups, last \in lasts, gap \in BOOLEAN}

ModRow(fpath, mods) == [fpath |-> fpath, mods |-> mods]

Files == {FilePaths[f] : f \in DOMAIN FilePaths}

\* GROUP BY file_path ORDER BY mods DESC: one row per file that has rows,
\* ties in any order
ModRowLists ==
    {r \in UNION {[1..k -> {ModRow(f, m) : f \in Files, m \in ModCounts}] :
                     k \in 0..Len(FilePaths)} :
        /\ \A i, j \in DOMAIN r : i < j => r[i].fpath # r[j].fpath
        /\ \A i, j \in DOMAIN r : i < j => r[i].mods >= r[j].mods}

Init ==
    /\ pc = "select"
    /\ head_files \in SUBSET Files
    /\ mod_rows \in ModRowLists
    /\ top_n \in TopNs
    /\ target_files = None
    /\ file_no = None
    /\ results = None
    /\ git_log = None
    /\ commit_hashes = None
    /\ sampled = None
    /\ metrics = None
    /\ classification = None
    /\ failed = None
    /\ CoordIdle
    /\ FnIdle

    /\ IngestIdle
    /\ GourceIdle
\* lines 46-69: the queries, the selection, the empty result
SelectFiles ==
    /\ pc = "select"
    /\ target_files' = SelectTargets(mod_rows, head_files, top_n, << >>)
    /\ file_no' = 0
    /\ results' = EmptyDict
    /\ git_log' = EmptyDict
    /\ pc' = "files"
    /\ UNCHANGED <<failed, commit_hashes, sampled, metrics, classification,
                   head_files, mod_rows, top_n, coordVars, fnVars>>

    /\ UNCHANGED <<ingestVars, gourceVars>>
\* lines 74-78: file_at_commit("HEAD", fpath) raises RuntimeError: continue
SkipUnresolvedFile ==
    /\ pc = "files"
    /\ file_no < Len(target_files)
    /\ file_no' = file_no + 1
    /\ UNCHANGED <<pc, failed, commit_hashes, sampled, metrics, classification,
                   head_files, mod_rows, top_n, target_files, results, git_log,
                   coordVars, fnVars>>

    /\ UNCHANGED <<ingestVars, gourceVars>>
\* lines 80-139: what one iteration assigns when HEAD resolved to
\* final_content, git log listed n commits and file_at_commit answered
\* lookups; `reached` names the line at which the iteration ended
FileIteration(n, lookups, final_content, mod_count) ==
    IF n < MinTouchingCommits
    THEN [reached |-> "line 83", commit_hashes |-> HashList(n),
          sampled |-> None, failed |-> None, result |-> None]
    ELSE CHOOSE it \in
           {IF TooFewPoints(trajectory)
            THEN [reached |-> "line 104", commit_hashes |-> HashList(n),
                  sampled |-> smp, failed |-> unresolved, result |-> None]
            ELSE [reached |-> "line 139", commit_hashes |-> HashList(n),
                  sampled |-> smp, failed |-> unresolved,
                  result |-> ResultOf(trajectory, mod_count)] :
               <<smp, unresolved, trajectory>> \in
                   {<<s, {s[k] : k \in {j \in DOMAIN s : lookups[s[j]].out = "error"}},
                      BuildTrajectory(s, lookups, final_content)>> :
                        s \in {SampleCommits(HashList(n))}}} : TRUE

\* the iterations the repository allows for a file of mod_count rows, computed
\* once for every answer it can give
FileIterations ==
    [mod_count \in ModCounts |->
        UNION {{FileIteration(n, lookups, final_content, mod_count) :
                   lookups \in Histories(n, final_content)} :
                  final_content \in Texts, n \in HistoryLens}]

\* lines 70-139: one iteration of the file loop in which HEAD resolves
ProcessFile ==
    /\ pc = "files"
    /\ file_no < Len(target_files)
    /\ \E it \in FileIterations[target_files[file_no + 1].mods] :
          LET fpath == target_files[file_no + 1].fpath
          IN  /\ commit_hashes' = it.commit_hashes
              /\ git_log' = Store(git_log, fpath, it.commit_hashes)
              /\ IF it.reached = "line 83"
                 THEN UNCHANGED <<sampled, failed, metrics, classification, results>>
                 ELSE /\ sampled' = it.sampled
                      /\ failed' = it.failed
                      /\ IF it.reached = "line 104"
                         THEN UNCHANGED <<metrics, classification, results>>
                         ELSE /\ metrics' =
                                     [decrease_ratio |-> it.result.decrease_ratio,
                                      oscillation_rate |-> it.result.oscillation_rate,
                                      net_progress |-> it.result.net_progress]
                              /\ classification' = it.result.classification
                              /\ results' = Store(results, fpath, it.result)
    /\ file_no' = file_no + 1
    /\ UNCHANGED <<pc, head_files, mod_rows, top_n, target_files, coordVars, fnVars>>

    /\ UNCHANGED <<ingestVars, gourceVars>>
\* a lookup of the iteration raises what no except clause catches:
\* subprocess.TimeoutExpired from any git call, or RuntimeError from
\* commits_touching_file (line 81 is outside the try blocks)
LookupRaises ==
    /\ pc = "files"
    /\ file_no < Len(target_files)
    /\ pc' = "raised"
    /\ UNCHANGED <<trajVars, coordVars, fnVars>>

    /\ UNCHANGED <<ingestVars, gourceVars>>
\* line 141
ReturnResults ==
    /\ pc = "files"
    /\ file_no = Len(target_files)
    /\ pc' = "done"
    /\ UNCHANGED <<trajVars, coordVars, fnVars>>

    /\ UNCHANGED <<ingestVars, gourceVars>>
Next ==
    \/ SelectFiles
    \/ SkipUnresolvedFile
    \/ ProcessFile
    \/ LookupRaises
    \/ ReturnResults

Spec == Init /\ [][Next]_vars

(***************************************************************************)
(* Claims about the sampling block (SpecSample)                            *)
(***************************************************************************)

\* C1 (as stated): once the sampling block has run on a list of more than 50
\* touching commits, the sampled list holds at most 51 commits.
C1_SampleAtMost51 ==
    (pc = "sampled" /\ Len(commit_hashes) > 50) => Len(sampled) <= 51

\* C2: a list of at most 50 commits is used unchanged; a longer list is
\* replaced by its elements at the 0-based indices 0, s, 2s, ... with
\* s = floor(count/50), in order, followed by the last commit of the list
\* when the stride did not select it; the sample starts with the first
\* commit and ends with the final commit.
C2_SamplingPolicy ==
    pc = "sampled" =>
        LET n == Len(commit_hashes) IN
        IF n <= 50
        THEN sampled = commit_hashes
        ELSE LET s == n \div 50
                 m == ((n - 1) \div s) + 1
             IN  /\ Len(sampled) >= m
                 /\ \A k \in 1..m : sampled[k] = commit_hashes[(k - 1) * s + 1]
                 /\ IF (n - 1) % s = 0
                    THEN Len(sampled) = m
                    ELSE Len(sampled) = m + 1 /\ sampled[m + 1] = commit_hashes[n]
                 /\ sampled[1] = commit_hashes[1]
                 /\ sampled[Len(sampled)] = commit_hashes[n]

\* 120 commits: stride 2 selects indices 0..118 and the final commit is forced in
C2_Witness ==
    /\ pc = "sampled"
    /\ Len(commit_hashes) = 120
    /\ Len(sampled) = 61
    /\ sampled[60] = commit_hashes[119]
    /\ sampled[61] = commit_hashes[120]

(***************************************************************************)
(* Claims about the classification block (SpecClassify)                    *)
(***************************************************************************)
LearningCondition ==
    /\ metrics.decrease_ratio[1] * 10 > 6 * metrics.decrease_ratio[2]
    /\ metrics.net_progress[1] * 10 > 1 * metrics.net_progress[2]

ThrashingCondition ==
    \/ metrics.oscillation_rate[1] * 10 > 5 * metrics.oscillation_rate[2]
    \/ metrics.net_progress[1] * 10 <= 1 * metrics.net_progress[2]

MetricsAre(dr, osc, np) ==
    /\ REq(metrics.decrease_ratio, dr)
    /\ REq(metrics.oscillation_rate, osc)
    /\ REq(metrics.net_progress, np)

\* C3: the label is decided by the three scalars alone, first match wins:
\* learning iff decrease_ratio > 0.6 and net_progress > 0.1; otherwise
\* thrashing iff oscillation_rate > 0.5 or net_progress <= 0.1; otherwise
\* mixed; and (1.0, 0.0, 0.8) is learning, (0.2, 0.7, 0.05) is thrashing,
\* (0.5, 0.3, 0.3) is mixed.
C3_DecisionTable ==
    pc = "classified" =>
        /\ classification \in {"learning", "thrashing", "mixed"}
        /\ classification = "learning" <=> LearningCondition
        /\ classification = "thrashing" <=> (~LearningCondition /\ ThrashingCondition)
        /\ classification = "mixed" <=> (~LearningCondition /\ ~ThrashingCondition)
        /\ MetricsAre(Rat(1, 1), Rat(0, 1), Rat(8, 10)) => classification = "learning"
        /\ MetricsAre(Rat(2, 10), Rat(7, 10), Rat(5, 100)) => classification = "thrashing"
        /\ MetricsAre(Rat(5, 10), Rat(3, 10), Rat(3, 10)) => classification = "mixed"

\* the triple on both boundaries (0.6, 0.5, 0.1) falls through rule 1 and is
\* caught by net_progress <= 0.1
C3_Witness ==
    /\ pc = "classified"
    /\ MetricsAre(Rat(6, 10), Rat(5, 10), Rat(1, 10))
    /\ classification = "thrashing"

\* C4: when decrease_ratio > 0.6 and net_progress > 0.1 the label is learning
\* whatever oscillation_rate is, also when oscillation_rate > 0.5.
C4_LearningPrecedence ==
    (pc = "classified" /\ LearningCondition) => classification = "learning"

\* decrease_ratio = 0.9, net_progress = 0.5, oscillation_rate = 0.9
C4_Witness ==
    /\ pc = "classified"
    /\ MetricsAre(Rat(9, 10), Rat(9, 10), Rat(5, 10))
    /\ classification = "learning"

(***************************************************************************)
(* Claims about run_coordination_analysis (SpecCoord)                      *)
(***************************************************************************)
CoordReturned == pc = "coord_done"

\* the consecutive pairs of every file: <<g, i>> is (touches[i-1], touches[i])
\* of the g-th file
ConsecutivePairs ==
    {<<g, i>> \in (DOMAIN file_touches) \X (2..MaxRows) :
        i <= Len(file_touches[g].touches)}

PrevOf(p) == file_touches[p[1]].touches[p[2] - 1]

CurrOf(p) == file_touches[p[1]].touches[p[2]]

PathOf(p) == file_touches[p[1]].file_path

GapOf(p) == CurrOf(p).commit_id - PrevOf(p).commit_id

\* the estimate of the pair, in minutes, as the code computes it
EstimateOf(p) == Rat(GapOf(p) * 14 * 24 * 60, 3982)

RecordedAsThrash(p) ==
    \E k \in DOMAIN thrash_incidents :
        /\ thrash_incidents[k].file_path = PathOf(p)
        /\ thrash_incidents[k].prev_hash = PrevOf(p).hash
        /\ thrash_incidents[k].curr_hash = CurrOf(p).hash
        /\ thrash_incidents[k].prev_commit_id = PrevOf(p).commit_id
        /\ thrash_incidents[k].curr_commit_id = CurrOf(p).commit_id
        /\ thrash_incidents[k].prev_insertions = PrevOf(p).insertions
        /\ thrash_incidents[k].curr_deletions = CurrOf(p).deletions

RecordedAsRapid(p) ==
    \E k \in DOMAIN rapid_overwrites :
        /\ rapid_overwrites[k].file_path = PathOf(p)
        /\ rapid_overwrites[k].prev_hash = PrevOf(p).hash
        /\ rapid_overwrites[k].curr_hash = CurrOf(p).hash
        /\ rapid_overwrites[k].prev_insertions = PrevOf(p).insertions
        /\ rapid_overwrites[k].curr_deletions = CurrOf(p).deletions

\* C5: a consecutive pair of touches of one path is recorded as a thrash
\* incident if and only if its estimated minutes are strictly below 30.
C5_StrictThrashWindow ==
    CoordReturned =>
        \A p \in ConsecutivePairs :
            RecordedAsThrash(p) <=> RLess(EstimateOf(p), RInt(30))

\* a pair 5 commits apart (25.3 minutes, the largest estimate below 30) is
\* recorded
C5_Witness ==
    /\ CoordReturned
    /\ \E p \in ConsecutivePairs :
          /\ GapOf(p) = 5
          /\ RLess(EstimateOf(p), RInt(30))
          /\ RecordedAsThrash(p)

\* C6: every entry of rapid_overwrites has an entry of thrash_incidents with
\* the same file_path, prev_hash and curr_hash, and rapid_overwrites is not
\* longer than thrash_incidents.
C6_RapidSubsetOfThrash ==
    pc \in {"coord_scan", "coord_done"} =>
        /\ \A k \in DOMAIN rapid_overwrites :
              \E j \in DOMAIN thrash_incidents :
                  /\ thrash_incidents[j].file_path = rapid_overwrites[k].file_path
                  /\ thrash_incidents[j].prev_hash = rapid_overwrites[k].prev_hash
                  /\ thrash_incidents[j].curr_hash = rapid_overwrites[k].curr_hash
        /\ Len(rapid_overwrites) <= Len(thrash_incidents)

\* a run that returned a rapid overwrite and an incident that is not one
C6_Witness ==
    /\ CoordReturned
    /\ Len(rapid_overwrites) >= 1
    /\ Len(rapid_overwrites) < Len(thrash_incidents)

\* C7: a consecutive pair is recorded as a rapid overwrite if and only if its
\* estimated minutes are < 10, prev.insertions > 0 and
\* curr.deletions > 0.5 * prev.insertions (strictly).
C7_RapidOverwriteCondition ==
    CoordReturned =>
        \A p \in ConsecutivePairs :
            RecordedAsRapid(p) <=>
                /\ RLess(EstimateOf(p), RInt(10))
                /\ PrevOf(p).insertions > 0
                /\ 2 * CurrOf(p).deletions > PrevOf(p).insertions

\* prev.insertions = 100 and curr.deletions = 60 one commit apart (5.1
\* minutes): an incident and a rapid overwrite
C7_Witness ==
    /\ CoordReturned
    /\ \E p \in ConsecutivePairs :
          /\ GapOf(p) = 1
          /\ PrevOf(p).insertions = 100 /\ CurrOf(p).deletions = 60
          /\ RecordedAsThrash(p) /\ RecordedAsRapid(p)

\* C8: a consecutive pair whose estimated minutes are >= 10 and < 30 is
\* recorded as a thrash incident and not as a rapid overwrite, whatever its
\* insertions and deletions.
C8_BetweenWindows ==
    CoordReturned =>
        \A p \in ConsecutivePairs :
            (RLeq(RInt(10), EstimateOf(p)) /\ RLess(EstimateOf(p), RInt(30)))
                => (RecordedAsThrash(p) /\ ~RecordedAsRapid(p))

\* two commits apart (10.1 minutes) with the deletion ratio condition true
C8_Witness ==
    /\ CoordReturned
    /\ \E p \in ConsecutivePairs :
          /\ GapOf(p) = 2
          /\ PrevOf(p).insertions = 2 /\ CurrOf(p).deletions = 60
          /\ RecordedAsThrash(p) /\ ~RecordedAsRapid(p)

\* C9 (as stated): the estimated minutes of a pair are its ordinal gap times
\* (real duration of the analyzed log / number of commits of that log).
C9_ClockFromAnalyzedLog ==
    CoordReturned =>
        \A k \in DOMAIN thrash_incidents :
            REq(thrash_incidents[k].delta_minutes,
                Rat((thrash_incidents[k].curr_commit_id
                        - thrash_incidents[k].prev_commit_id) * clock.minutes,
                    clock.commits))

(***************************************************************************)
(* Claims about run_trajectory_analysis (Spec)                             *)
(***************************************************************************)
FilesLoopEntered == pc \in {"files", "done", "raised"}

\* the entries of the trajectory stored for fpath
TrajectoryOf(fpath) == results[fpath].trajectory

\* the file's final touching commit: the last hash of `git log -- fpath`
FinalCommitOf(fpath) == Last(git_log[fpath])

\* C10: in every produced trajectory that includes the file's final touching
\* commit, the entry of that commit is the last entry of the trajectory and
\* its distance is exactly 0.
C10_FinalPointLastAndZero ==
    FilesLoopEntered =>
        \A fpath \in DOMAIN results :
            \A k \in DOMAIN TrajectoryOf(fpath) :
                TrajectoryOf(fpath)[k].hash = FinalCommitOf(fpath)
                    => /\ k = Len(TrajectoryOf(fpath))
                       /\ TrajectoryOf(fpath)[k].distance = RZero

\* a file of 100 touching commits: the stride of 2 misses the final commit,
\* the sampling forces it in, and the earlier contents differ from HEAD
C10_Witness ==
    /\ pc = "done"
    /\ \E fpath \in DOMAIN results :
          /\ Len(git_log[fpath]) = 100
          /\ Len(TrajectoryOf(fpath)) = 51
          /\ Last(TrajectoryOf(fpath)).hash = FinalCommitOf(fpath)
          /\ RPositive(TrajectoryOf(fpath)[1].distance)

(***************************************************************************)
(* Claims about normalized_edit_distance (SpecDistance)                    *)
(***************************************************************************)
Measured == pc = "measured"

InUnitInterval(x) == RLeq(RZero, x) /\ RLeq(x, ROne)

\* C11: normalized_edit_distance(a, b) lies in [0,1] for all texts a, b.
C11_DistanceInUnitInterval ==
    Measured => InUnitInterval(dist)

\* two texts of two lines that share one line: the distance is 1 - 2*1/4
C11_Witness ==
    /\ Measured
    /\ Len(SplitLines(text_a)) = 2
    /\ Len(SplitLines(text_b)) = 2
    /\ MatchedLines(SplitLines(text_a), SplitLines(text_b)) = 1
    /\ REq(dist, Rat(1, 2))

\* every distance stored in a produced trajectory lies in [0,1] (Spec)
StoredDistancesInUnitInterval ==
    FilesLoopEntered =>
        \A fpath \in DOMAIN results :
            \A k \in DOMAIN TrajectoryOf(fpath) :
                InUnitInterval(TrajectoryOf(fpath)[k].distance)

\* C12: normalized_edit_distance(x, x) = 0 for every text x, the empty text
\* included.
C12_DistanceIdentity ==
    (Measured /\ text_a = text_b) => dist = RZero

\* the empty text against itself
C12_Witness ==
    /\ Measured
    /\ text_a = << >>
    /\ text_b = << >>
    /\ dist = RZero

\* C13: when exactly one of a, b is the empty text, the distance is 1, in
\* both argument orders.
C13_OneEmptySide ==
    (Measured /\ ((text_a = << >>) # (text_b = << >>))) => dist = ROne

\* the empty text as second argument, a text of two lines as first
C13_Witness ==
    /\ Measured
    /\ Len(SplitLines(text_a)) = 2
    /\ text_b = << >>
    /\ dist = ROne

(***************************************************************************)
(* Claims about the analysis of one trajectory (SpecMetrics)               *)
(***************************************************************************)
Analyzed == pc = "analyzed"

\* d[i] of the claims, i counted from 0
DistanceAt(i) == distance_list[i + 1]

LastIndex == Len(distance_list) - 1

\* d[i+1] - d[i] < 0
Decreases(i) == RLess(DistanceAt(i + 1), DistanceAt(i))

\* d[i+1] - d[i] > 0
Increases(i) == RLess(DistanceAt(i), DistanceAt(i + 1))

\* C14: for a trajectory with distances d[0..k], decrease_ratio is the number
\* of i with d[i+1] - d[i] < 0 divided by k, and net_progress is d[0] - d[k];
\* the distances [0.8, 0.3, 0.0] give decrease_ratio 1.0, net_progress 0.8
\* and the classification "learning".
C14_DecreaseRatioAndNetProgress ==
    Analyzed =>
        /\ REq(metrics.decrease_ratio,
               Rat(Cardinality({i \in 0..(LastIndex - 1) : Decreases(i)}), LastIndex))
        /\ metrics.net_progress[1] * DistanceAt(0)[2] * DistanceAt(LastIndex)[2]
              = metrics.net_progress[2]
                  * (DistanceAt(0)[1] * DistanceAt(LastIndex)[2]
                       - DistanceAt(LastIndex)[1] * DistanceAt(0)[2])
        /\ distance_list = <<Rat(8, 10), Rat(3, 10), RZero>>
              => /\ REq(metrics.decrease_ratio, ROne)
                 /\ REq(metrics.net_progress, Rat(8, 10))
                 /\ classification = "learning"

\* the scenario [0.8, 0.3, 0.0]
C14_Witness ==
    /\ Analyzed
    /\ distance_list = <<Rat(8, 10), Rat(3, 10), RZero>>
    /\ classification = "learning"

\* C15: oscillation_rate is the number of adjacent delta pairs of opposite
\* signs (one positive, one negative) divided by the number of deltas minus
\* one, and 0 when there are fewer than 2 deltas; the distances
\* [0.2, 0.6, 0.1, 0.5] give oscillation_rate 1.0 and the classification
\* "thrashing".
C15_OscillationRate ==
    Analyzed =>
        /\ IF LastIndex < 2
           THEN REq(metrics.oscillation_rate, RZero)
           ELSE REq(metrics.oscillation_rate,
                    Rat(Cardinality({i \in 1..(LastIndex - 1) :
                                        \/ Increases(i) /\ Decreases(i - 1)
                                        \/ Decreases(i) /\ Increases(i - 1)}),
                        LastIndex - 1))
        /\ distance_list = <<Rat(2, 10), Rat(6, 10), Rat(1, 10), Rat(5, 10)>>
              => /\ REq(metrics.oscillation_rate, ROne)
                 /\ classification = "thrashing"

\* the scenario [0.2, 0.6, 0.1, 0.5]
C15_Witness ==
    /\ Analyzed
    /\ distance_list = <<Rat(2, 10), Rat(6, 10), Rat(1, 10), Rat(5, 10)>>
    /\ REq(metrics.oscillation_rate, ROne)
    /\ classification = "thrashing"

(***************************************************************************)
(* Claims about the selection of run_trajectory_analysis (Spec)            *)
(***************************************************************************)
\* the (fpath, mods) pairs the file loop iterates over
Selected == {target_files[k] : k \in DOMAIN target_files}

\* the files of the final snapshot with at least 3 recorded touches
Candidates ==
    {mod_rows[k] : k \in {j \in DOMAIN mod_rows :
                             /\ mod_rows[j].fpath \in head_files
                             /\ mod_rows[j].mods >= 3}}

\* C16: every processed file is present at HEAD and has at least 3 recorded
\* touches, and no HEAD file with at least 3 touches that was left out has
\* strictly more touches than a selected file.
C16_TopRankedCandidates ==
    FilesLoopEntered =>
        /\ Selected \subseteq Candidates
        /\ \A left_out \in Candidates \ Selected :
              \A chosen \in Selected : left_out.mods <= chosen.mods

\* two candidates of 4 and 3 touches and top_n = 1: the file of 4 touches is
\* selected, the other is left out
C16_Witness ==
    /\ FilesLoopEntered
    /\ top_n = 1
    /\ Cardinality(Candidates) = 2
    /\ \E chosen \in Selected : chosen.mods = 4
    /\ \E left_out \in Candidates \ Selected : left_out.mods = 3

\* C17 (as stated): for every top_n >= 0 at most top_n files are selected and
\* the result mapping has at most top_n keys.
C17_AtMostTopN ==
    FilesLoopEntered =>
        /\ Len(target_files) <= top_n
        /\ Cardinality(DOMAIN results) <= top_n

(***************************************************************************)
(* Claims about the file loop of run_trajectory_analysis (Spec)            *)
(***************************************************************************)
\* the file of the iteration that ended last
CurrentFile == target_files[file_no].fpath

\* the iteration that ended last ran the loop of lines 95-101: HEAD was
\* resolved and git log listed at least 3 commits
LookupLoopRan ==
    /\ FilesLoopEntered
    /\ file_no >= 1
    /\ CurrentFile \in DOMAIN git_log
    /\ Len(git_log[CurrentFile]) >= 3

\* the sampled commits whose content was resolved, in sampled order
Resolved == SelectSeq(sampled, LAMBDA h : h \notin failed)

\* C18: when content resolution fails for some sampled commits of a file,
\* exactly those commits are missing from the trajectory of the file; the
\* remaining entries keep their chronological order, each position index is
\* the position of the commit in the sampled list, the indices are strictly
\* increasing, and the file is reported when at least 3 points were resolved.
C18_PointFailureIsLocal ==
    LookupLoopRan =>
        /\ Len(Resolved) >= 3 => CurrentFile \in DOMAIN results
        /\ CurrentFile \in DOMAIN results =>
              /\ [k \in DOMAIN TrajectoryOf(CurrentFile) |->
                     TrajectoryOf(CurrentFile)[k].hash] = Resolved
              /\ \A k \in DOMAIN TrajectoryOf(CurrentFile) :
                    sampled[TrajectoryOf(CurrentFile)[k].order + 1]
                        = TrajectoryOf(CurrentFile)[k].hash
              /\ \A k \in 1..(Len(TrajectoryOf(CurrentFile)) - 1) :
                    TrajectoryOf(CurrentFile)[k].order
                        < TrajectoryOf(CurrentFile)[k + 1].order

\* the lookup of a sampled commit that is not the last one failed and the
\* file is reported with the other sampled commits
C18_Witness ==
    /\ LookupLoopRan
    /\ \E h \in failed : h # Last(sampled)
    /\ CurrentFile \in DOMAIN results
    /\ Len(TrajectoryOf(CurrentFile)) + Cardinality(failed) = Len(sampled)

\* the files of the iterations that have ended
Processed == {target_files[k].fpath : k \in 1..file_no}

\* the iteration of fpath ended at line 78: its HEAD content was not resolved
\* and git log was never asked for it
HeadUnresolved(fpath) == fpath \in Processed /\ fpath \notin DOMAIN git_log

\* C19: a file whose HEAD content cannot be resolved never appears in the
\* result mapping, and every file in the result mapping has a trajectory of
\* at least 3 entries and at least 3 touching commits.
C19_ExclusionRules ==
    FilesLoopEntered =>
        /\ \A fpath \in Processed :
              HeadUnresolved(fpath) => fpath \notin DOMAIN results
        /\ \A fpath \in DOMAIN results :
              /\ Len(TrajectoryOf(fpath)) >= 3
              /\ Len(git_log[fpath]) >= 3

\* a run over two files: the HEAD content of one was not resolved, the other
\* has 3 touching commits of which 2 were resolved; neither is reported
C19_Witness ==
    /\ pc = "done"
    /\ file_no = 2
    /\ HeadUnresolved(target_files[1].fpath)
    /\ LookupLoopRan
    /\ Len(sampled) = 3
    /\ Cardinality(failed) = 1
    /\ DOMAIN results = {}

\* C20 (as stated): whatever per-file lookup fails or times out, the run is
\* not aborted: it never ends with an exception leaving the file loop.
C20_NoLookupFailureAborts ==
    pc # "raised"

(***************************************************************************)
(* Further claims about run_coordination_analysis (SpecCoord)              *)
(***************************************************************************)
\* the rows of one path, in the order of the query (by commit id)
RowsOfPath(fpath) == SelectSeq(rows, LAMBDA r : r.file_path = fpath)

IncidentsOfPath(fpath) ==
    SelectSeq(thrash_incidents, LAMBDA t : t.file_path = fpath)

OverwritesOfPath(fpath) ==
    SelectSeq(rapid_overwrites, LAMBDA t : t.file_path = fpath)

PathsOfLog == {rows[k].file_path : k \in DOMAIN rows}

\* incident t is made of the touches at positions i - 1 and i of touch
\* sequence ts
MadeOfAdjacent(t, ts, i) ==
    /\ t.prev_hash = ts[i - 1].hash
    /\ t.curr_hash = ts[i].hash
    /\ t.prev_commit_id = ts[i - 1].commit_id
    /\ t.curr_commit_id = ts[i].commit_id

OrderedByCommitId(ts) ==
    \A i \in 2..Len(ts) : ts[i - 1].commit_id <= ts[i].commit_id

\* C23: every thrash incident is made of two touches of one path that are
\* adjacent in that path's touch sequence ordered by commit id, so its
\* prev_commit_id is at most its curr_commit_id; a path with n touches has at
\* most n - 1 incidents.
C23_IncidentsAreAdjacentPairs ==
    CoordReturned =>
        /\ \A k \in DOMAIN thrash_incidents :
              LET t == thrash_incidents[k]
                  ts == RowsOfPath(t.file_path)
              IN  /\ OrderedByCommitId(ts)
                  /\ \E i \in 2..Len(ts) : MadeOfAdjacent(t, ts, i)
                  /\ t.prev_commit_id <= t.curr_commit_id
        /\ \A fpath \in PathsOfLog :
              Len(IncidentsOfPath(fpath)) <= Len(RowsOfPath(fpath)) - 1

\* a path touched MaxRows times, every consecutive pair an incident
C23_Witness ==
    /\ CoordReturned
    /\ \E fpath \in PathsOfLog :
          /\ Len(RowsOfPath(fpath)) = MaxRows
          /\ Len(IncidentsOfPath(fpath)) = MaxRows - 1
          /\ RowsOfPath(fpath)[1].commit_id < RowsOfPath(fpath)[MaxRows].commit_id

\* C24: file_thrash_counts[p] is the number of thrash incidents recorded for
\* path p, a path without incident has no counter, and the counters add up to
\* the number of thrash incidents.
RECURSIVE SumCounts(_, _)
SumCounts(counts, paths) ==
    IF paths = {} THEN 0
    ELSE LET p == CHOOSE x \in paths : TRUE
         IN  counts[p] + SumCounts(counts, paths \ {p})

C24_CountersMatchIncidents ==
    CoordReturned =>
        /\ \A fpath \in DOMAIN file_thrash_counts :
              /\ file_thrash_counts[fpath] = Len(IncidentsOfPath(fpath))
              /\ file_thrash_counts[fpath] > 0
        /\ \A k \in DOMAIN thrash_incidents :
              thrash_incidents[k].file_path \in DOMAIN file_thrash_counts
        /\ SumCounts(file_thrash_counts, DOMAIN file_thrash_counts)
              = Len(thrash_incidents)

\* a path counted twice: three touches, both consecutive pairs incidents
C24_Witness ==
    /\ CoordReturned
    /\ \E fpath \in DOMAIN file_thrash_counts :
          /\ file_thrash_counts[fpath] = 2
          /\ Len(IncidentsOfPath(fpath)) = 2

\* what lines 46-81 make of the touches of one path taken alone
LaterOfThrashPairs(ts) ==
    SelectSeq([i \in 1..(Len(ts) - 1) |-> i + 1],
              LAMBDA i : IsThrashIncident(
                             ApproxMinutes(ts[i].commit_id - ts[i - 1].commit_id)))

LaterOfRapidPairs(ts) ==
    SelectSeq(LaterOfThrashPairs(ts),
              LAMBDA i : IsRapidOverwrite(
                             ApproxMinutes(ts[i].commit_id - ts[i - 1].commit_id),
                             Touch(ts[i - 1]), Touch(ts[i])))

OwnIncidents(fpath, ts) ==
    LET later == LaterOfThrashPairs(ts)
    IN  [k \in 1..Len(later) |->
            ThrashIncident(fpath, Touch(ts[later[k] - 1]), Touch(ts[later[k]]),
                ApproxMinutes(ts[later[k]].commit_id - ts[later[k] - 1].commit_id))]

OwnOverwrites(fpath, ts) ==
    LET later == LaterOfRapidPairs(ts)
    IN  [k \in 1..Len(later) |->
            RapidOverwrite(fpath, Touch(ts[later[k] - 1]), Touch(ts[later[k]]),
                ApproxMinutes(ts[later[k]].commit_id - ts[later[k] - 1].commit_id))]

\* C25: the incidents, the rapid overwrites and the counter of a path are
\* what its own touches give when taken alone; the touches of the other paths
\* add nothing to them and take nothing from them.
C25_PathsAreIndependent ==
    CoordReturned =>
        \A f \in DOMAIN FilePaths :
            \A ts \in {RowsOfPath(FilePaths[f])} :
                \A own \in {OwnIncidents(FilePaths[f], ts)} :
                    /\ IncidentsOfPath(FilePaths[f]) = own
                    /\ OverwritesOfPath(FilePaths[f])
                           = OwnOverwrites(FilePaths[f], ts)
                    /\ IF FilePaths[f] \in DOMAIN file_thrash_counts
                       THEN file_thrash_counts[FilePaths[f]] = Len(own)
                       ELSE own = << >>

\* the last touch of one path and the first touch of the next are one commit
\* apart, and only the first path has an incident
C25_Witness ==
    /\ CoordReturned
    /\ Len(rows) = MaxRows
    /\ rows[MaxRows - 1].file_path # rows[MaxRows].file_path
    /\ rows[MaxRows].commit_id - rows[MaxRows - 1].commit_id = 1
    /\ Len(thrash_incidents) = 1
    /\ thrash_incidents[1].file_path = rows[1].file_path

\* C29: with 14 * 24 * 60 / 3982 minutes per commit, a consecutive pair is a
\* thrash incident exactly when its commit-id gap is at most 5, and is a rapid
\* overwrite only when its gap is at most 1.
C29_OrdinalWindows ==
    CoordReturned =>
        \A p \in ConsecutivePairs :
            /\ RecordedAsThrash(p) <=> GapOf(p) <= 5
            /\ RecordedAsRapid(p) => GapOf(p) <= 1

\* a pair 6 commits apart, with deletions above half of the earlier
\* insertions, is left out of both lists, next to a recorded rapid overwrite
C29_Witness ==
    /\ CoordReturned
    /\ \E p \in ConsecutivePairs :
          /\ GapOf(p) = 6
          /\ PrevOf(p).insertions > 0
          /\ 2 * CurrOf(p).deletions > PrevOf(p).insertions
          /\ ~RecordedAsThrash(p)
          /\ ~RecordedAsRapid(p)
    /\ \E p \in ConsecutivePairs : RecordedAsRapid(p)

(***************************************************************************)
(* Further claims about the metrics of a trajectory (SpecMetrics)          *)
(***************************************************************************)
\* d[i+1] - d[i] = 0
Flat(i) == REq(DistanceAt(i), DistanceAt(i + 1))

\* C30: a delta equal to 0 is counted neither as a decrease nor as part of a
\* direction change (the deltas +, 0, - give no direction change), and
\* decrease_ratio and oscillation_rate lie in [0, 1], net_progress in [-1, 1].
C30_ZeroDeltasAndRanges ==
    Analyzed =>
        /\ RLeq(metrics.decrease_ratio,
                Rat(Cardinality({i \in 0..(LastIndex - 1) : ~Flat(i)}), LastIndex))
        /\ LastIndex >= 2 =>
              RLeq(metrics.oscillation_rate,
                   Rat(Cardinality({i \in 1..(LastIndex - 1) :
                                       ~Flat(i) /\ ~Flat(i - 1)}),
                       LastIndex - 1))
        /\ (LastIndex = 3 /\ Increases(0) /\ Flat(1) /\ Decreases(2))
              => /\ REq(metrics.oscillation_rate, RZero)
                 /\ REq(metrics.decrease_ratio, Rat(1, 3))
        /\ InUnitInterval(metrics.decrease_ratio)
        /\ InUnitInterval(metrics.oscillation_rate)
        /\ RLeq(Rat(-1, 1), metrics.net_progress)
        /\ RLeq(metrics.net_progress, ROne)

\* the deltas +, 0, - : a rise, a plateau, a fall
C30_Witness ==
    /\ Analyzed
    /\ LastIndex = 3
    /\ Increases(0) /\ Flat(1) /\ Decreases(2)
    /\ REq(metrics.oscillation_rate, RZero)

(***************************************************************************)
(* Determinism of the selection of run_trajectory_analysis (Spec)          *)
(***************************************************************************)
RowSet(rws) == {rws[k] : k \in DOMAIN rws}

\* the answers the GROUP BY query may give over the log that gave mod_rows:
\* the same (file, count) rows, ordered by count, ties in any order
AnswersOverSameLog == {rws \in ModRowLists : RowSet(rws) = RowSet(mod_rows)}

\* C21 (as stated): two runs over the same log with the same collaborator
\* answers select the same set of files, also when several files tie on the
\* touch count at the top_n cut-off.
C21_SameLogSameSelection ==
    FilesLoopEntered =>
        \A rws \in AnswersOverSameLog :
            RowSet(SelectTargets(rws, head_files, top_n, << >>)) = Selected

(***************************************************************************)
(* build_db.py: parse_commits.  The text of git log is a sequence of lines *)
(* and COMMIT_DELIMITER marks.  A line that contains FIELD_DELIMITER is    *)
(* kept as the list of its parts, a line that matches NUMSTAT_RE as its    *)
(* three groups, any other line as plain text.                             *)
(***************************************************************************)
COMMIT_DELIMITER == [kind |-> "COMMIT_DELIMITER", fields |-> << >>]

\* a line with FIELD_DELIMITER in it: fields is line.split(FIELD_DELIMITER)
MetadataLine(parts) == [kind |-> "metadata", fields |-> parts]

\* a line NUMSTAT_RE matches: fields is m.groups()
NumstatLine(ins_str, del_str, filepath) ==
    [kind |-> "numstat", fields |-> <<ins_str, del_str, filepath>>]

\* any other line
TextLine == [kind |-> "text", fields |-> << >>]

\* int(s) for the digit strings of the model
IntOf == [s \in {"0", "1", "3"} |-> CASE s = "0" -> 0 [] s = "1" -> 1 [] s = "3" -> 3]

\* raw.split(COMMIT_DELIMITER)
RECURSIVE SplitBlocks(_, _)
SplitBlocks(tokens, block) ==
    IF tokens = << >> THEN <<block>>
    ELSE IF Head(tokens) = COMMIT_DELIMITER
         THEN <<block>> \o SplitBlocks(Tail(tokens), << >>)
         ELSE SplitBlocks(Tail(tokens), Append(block, Head(tokens)))

\* lines 153-169: _parse_numstat_lines
RECURSIVE ParseNumstatLines(_, _)
ParseNumstatLines(lns, commit) ==
    IF lns = << >> THEN commit
    ELSE IF Head(lns).kind # "numstat"
         THEN ParseNumstatLines(Tail(lns), commit)
         ELSE LET groups == Head(lns).fields
                  ins == IF groups[1] # "-" THEN IntOf[groups[1]] ELSE 0
                  dels == IF groups[2] # "-" THEN IntOf[groups[2]] ELSE 0
              IN  ParseNumstatLines(Tail(lns),
                      [commit EXCEPT
                          !.files = Append(@, [file_path |-> groups[3],
                                               insertions |-> ins,
                                               deletions |-> dels]),
                          !.files_changed = @ + 1,
                          !.insertions = @ + ins,
                          !.deletions = @ + dels])

\* lines 122-139: the commit dict made of the parts of a metadata line
CommitOf(parts) ==
    [hash |-> parts[1], author |-> parts[2], date |-> parts[3],
     subject |-> parts[4], body |-> IF Len(parts) > 4 THEN parts[5] ELSE "",
     files |-> << >>, files_changed |-> 0, insertions |-> 0, deletions |-> 0]

\* _parse_numstat_lines(lns, commits[-1])
IntoLastCommit(lns, cs) ==
    [cs EXCEPT ![Len(cs)] = ParseNumstatLines(lns, @)]

\* lines 96-101: the index of the first line that contains FIELD_DELIMITER,
\* 0 for None
MetadataLineIdx(lns) ==
    IF \E i \in DOMAIN lns : lns[i].kind = "metadata"
    THEN CHOOSE i \in DOMAIN lns :
             /\ lns[i].kind = "metadata"
             /\ \A j \in 1..(i - 1) : lns[j].kind # "metadata"
    ELSE 0

\* MinParts of len(parts) < 4
MinParts == 4

\* lines 82-145: one iteration of the loop over the blocks; cs is commits
ParseBlockOf(lns, cs) ==
    IF lns = << >> THEN cs
    ELSE LET idx == MetadataLineIdx(lns)
         IN  IF idx = 0
             THEN IF cs # << >> THEN IntoLastCommit(lns, cs) ELSE cs
             ELSE LET before == IF idx > 1 /\ cs # << >>
                                THEN IntoLastCommit(SubSeq(lns, 1, idx - 1), cs)
                                ELSE cs
                      parts == lns[idx].fields
                  IN  IF Len(parts) < MinParts
                      THEN before
                      ELSE Append(before,
                               ParseNumstatLines(SubSeq(lns, idx + 1, Len(lns)),
                                                 CommitOf(parts)))

InsertIdle ==
    /\ commit_id = None
    /\ file_id = None
    /\ batch_start = None
    /\ commits_table = None
    /\ commit_files_table = None

ParseBlock ==
    /\ pc = "parse"
    /\ \E blocks \in {SplitBlocks(raw, << >>)} :
          /\ block_no < Len(blocks)
          /\ commits' = ParseBlockOf(blocks[block_no + 1], commits)
    /\ block_no' = block_no + 1
    /\ UNCHANGED <<pc, raw, commit_id, file_id, batch_start, commits_table,
                   commit_files_table>>
    /\ UNCHANGED <<trajVars, coordVars, fnVars, gourceVars>>

\* line 147: return commits
ReturnCommits ==
    /\ pc = "parse"
    /\ block_no = Len(SplitBlocks(raw, << >>))
    /\ pc' = "parsed"
    /\ UNCHANGED <<ingestVars, trajVars, coordVars, fnVars, gourceVars>>

(***************************************************************************)
(* SpecParse: parse_commits on the text of logs of at most MaxRecords      *)
(* records.  Record k is a metadata line of PartsCounts parts whose hash   *)
(* is k, the delimiter, and the lines of one of NumstatBlocks.             *)
(***************************************************************************)
MaxRecords == 3

\* hash, author, date, subject, body
MetadataFields(k) == <<ToString(k), "author", "date", "subject", "body">>

\* a record cut after its third field, a record without body, a whole record
PartsCounts == {MinParts - 1, MinParts, MinParts + 1}

\* what follows the delimiter of a record
NumstatBlocks ==
    {<< >>,
     <<NumstatLine("3", "1", "src/a.c")>>,
     <<TextLine, NumstatLine("-", "-", "logo.png"), NumstatLine("0", "3", "src/b.c")>>}

RecordShapes == [parts : PartsCounts, numstat : NumstatBlocks]

\* the text of the records: metadata, delimiter, numstat lines
RECURSIVE RenderFrom(_, _)
RenderFrom(shapes, k) ==
    IF k > Len(shapes) THEN << >>
    ELSE <<MetadataLine(SubSeq(MetadataFields(k), 1, shapes[k].parts)),
           COMMIT_DELIMITER>>
         \o shapes[k].numstat \o RenderFrom(shapes, k + 1)

RawLogs ==
    {RenderFrom(shapes, 1) :
        shapes \in UNION {[1..n -> RecordShapes] : n \in 0..MaxRecords}}

ParseInit ==
    /\ pc = "parse"
    /\ raw \in RawLogs
    /\ block_no = 0
    /\ commits = << >>
    /\ InsertIdle
    /\ TrajIdle
    /\ CoordIdle
    /\ FnIdle
    /\ GourceIdle

ParseNext == ParseBlock \/ ReturnCommits

SpecParse == ParseInit /\ [][ParseNext]_vars

(***************************************************************************)
(* Claims about parse_commits (SpecParse)                                  *)
(***************************************************************************)
Parsed == pc = "parsed"

\* the positions of the metadata lines of raw: where its records start
RecordStarts == SelectSeq([i \in 1..Len(raw) |-> i],
                          LAMBDA i : raw[i].kind = "metadata")

\* the lines of the record that starts at the r-th metadata line: up to the
\* next metadata line
RecordLines(starts, r) ==
    SubSeq(raw, starts[r] + 1,
           IF r < Len(starts) THEN starts[r + 1] - 1 ELSE Len(raw))

WellFormed(i) == Len(raw[i].fields) >= MinParts

\* the commit a well-formed record describes: its fields and its own lines
CommitOfRecord(starts, r) ==
    ParseNumstatLines(RecordLines(starts, r), CommitOf(raw[starts[r]].fields))

\* C22 (as stated): a record with missing fields is dropped on its own: the
\* parsed commits are the well-formed records of the text, in order, each
\* with the touch lines of its own record and no others.
C22_MalformedDroppedAlone ==
    Parsed =>
        \E starts \in {RecordStarts} :
            \E kept \in {SelectSeq([r \in 1..Len(starts) |-> r],
                                   LAMBDA r : WellFormed(starts[r]))} :
                /\ Len(commits) = Len(kept)
                /\ \A k \in DOMAIN commits :
                      k <= Len(kept) =>
                          commits[k] = CommitOfRecord(starts, kept[k])

(***************************************************************************)
(* build_db.py: insert_commits.  The hashes of the input are distinct      *)
(* (commits.hash is UNIQUE), so no INSERT is refused.                      *)
(***************************************************************************)
batch_size == 500

Min(a, b) == IF a < b THEN a ELSE b

\* lines 190-196: the (commit, file) pairs the inner loops of the commits
\* batch[lo..hi] visit, in order (the range is halved to keep the evaluation
\* shallow)
RECURSIVE FilesOfBatch(_, _, _)
FilesOfBatch(batch, lo, hi) ==
    IF lo > hi THEN << >>
    ELSE IF lo = hi
         THEN [j \in 1..Len(batch[lo].files) |->
                  [commit_hash |-> batch[lo].hash, file |-> batch[lo].files[j]]]
         ELSE FilesOfBatch(batch, lo, (lo + hi) \div 2)
              \o FilesOfBatch(batch, ((lo + hi) \div 2) + 1, hi)

\* lines 181-189: commit_id += 1 before each INSERT INTO commits: the k-th
\* commit of the batch gets first_id + k
CommitRows(batch, first_id) ==
    [k \in 1..Len(batch) |->
        [id |-> first_id + k, hash |-> batch[k].hash,
         files_changed |-> batch[k].files_changed]]

\* lines 190-196: file_id += 1 before each INSERT INTO commit_files
FileRows(batch, first_id) ==
    LET pairs == FilesOfBatch(batch, 1, Len(batch))
    IN  [j \in 1..Len(pairs) |->
            [id |-> first_id + j, commit_hash |-> pairs[j].commit_hash,
             file_path |-> pairs[j].file.file_path,
             insertions |-> pairs[j].file.insertions,
             deletions |-> pairs[j].file.deletions]]

\* InsertBatch with the two counters set to 0 inside the loop over the
\* batches
InsertBatchCountersPerBatch ==
    /\ pc = "insert"
    /\ batch_start < Len(commits)
    /\ \E batch \in {SubSeq(commits, batch_start + 1,
                            Min(batch_start + batch_size, Len(commits)))} :
       \E files_rows \in {FileRows(batch, 0)} :
          /\ commits_table' = commits_table \o CommitRows(batch, 0)
          /\ commit_id' = Len(batch)
          /\ commit_files_table' = commit_files_table \o files_rows
          /\ file_id' = Len(files_rows)
    /\ batch_start' = batch_start + batch_size
    /\ UNCHANGED <<pc, raw, block_no, commits>>
    /\ UNCHANGED <<trajVars, coordVars, fnVars, gourceVars>>

\* lines 177-199: one iteration of the loop over the batches, from
\* con.begin() to con.commit()
InsertBatch ==
    /\ pc = "insert"
    /\ batch_start < Len(commits)
    /\ \E batch \in {SubSeq(commits, batch_start + 1,
                            Min(batch_start + batch_size, Len(commits)))} :
       \E files_rows \in {FileRows(batch, file_id)} :
          /\ commits_table' = commits_table \o CommitRows(batch, commit_id)
          /\ commit_id' = commit_id + Len(batch)
          /\ commit_files_table' = commit_files_table \o files_rows
          /\ file_id' = file_id + Len(files_rows)
    /\ batch_start' = batch_start + batch_size
    /\ UNCHANGED <<pc, raw, block_no, commits>>
    /\ UNCHANGED <<trajVars, coordVars, fnVars, gourceVars>>

\* the loop over the batches is over: insert_commits returns
ReturnInserted ==
    /\ pc = "insert"
    /\ batch_start >= Len(commits)
    /\ pc' = "inserted"
    /\ UNCHANGED <<ingestVars, trajVars, coordVars, fnVars, gourceVars>>

(***************************************************************************)
(* SpecInsert: insert_commits on lists of commits whose length is within 1 *)
(* of a multiple of batch_size, up to MaxBatches batches; the commits      *)
(* touch files after one of FilePatterns, repeated.                        *)
(***************************************************************************)
MaxBatches == 2

InsertLens ==
    {n \in {b * batch_size + d : b \in 0..MaxBatches, d \in {-1, 0, 1}} : n >= 0}

\* how many files the commits touch, in turn
FilePatterns == {<<0>>, <<1>>, <<2>>, <<1, 0>>, <<0, 2>>, <<2, 1, 0>>}

TouchedFile(j) == [file_path |-> FilePaths[j], insertions |-> 3, deletions |-> 1]

\* the k-th commit dict of parse_commits' list
ParsedCommit(k, pattern) ==
    LET touched == pattern[((k - 1) % Len(pattern)) + 1]
    IN  [hash |-> ToString(k),
         files |-> [j \in 1..touched |-> TouchedFile(j)],
         files_changed |-> touched]

InsertInit ==
    /\ pc = "insert"
    /\ \E n \in InsertLens, pattern \in FilePatterns :
          commits = [k \in 1..n |-> ParsedCommit(k, pattern)]
    /\ raw = None
    /\ block_no = None
    /\ commit_id = 0
    /\ file_id = 0
    /\ batch_start = 0
    /\ commits_table = << >>
    /\ commit_files_table = << >>
    /\ TrajIdle
    /\ CoordIdle
    /\ FnIdle
    /\ GourceIdle

InsertNext == InsertBatch \/ ReturnInserted

SpecInsert == InsertInit /\ [][InsertNext]_vars

(***************************************************************************)
(* Claims about insert_commits (SpecInsert)                                *)
(***************************************************************************)
Inserted == pc = "inserted"

\* the (commit, file) pairs of the whole input list, in input order
TouchesInInputOrder == FilesOfBatch(commits, 1, Len(commits))

\* C26: insert_commits gives the commits of its input the ids 1, 2, ..., n
\* in input order, without gap or restart at a batch boundary, and gives the
\* commit_files rows the ids 1, 2, ... in the same order: by commit, then by
\* the place of the file in the commit's list.
C26_OrdinalsAtIngestion ==
    /\ pc \in {"insert", "inserted"} =>
          /\ \A k \in DOMAIN commits_table :
                /\ commits_table[k].id = k
                /\ commits_table[k].hash = commits[k].hash
          /\ \A j \in DOMAIN commit_files_table : commit_files_table[j].id = j
    /\ Inserted =>
          /\ Len(commits_table) = Len(commits)
          /\ \E touches \in {TouchesInInputOrder} :
                /\ Len(commit_files_table) = Len(touches)
                /\ \A j \in DOMAIN touches :
                      /\ commit_files_table[j].commit_hash = touches[j].commit_hash
                      /\ commit_files_table[j].file_path = touches[j].file.file_path

\* two full batches and one more commit: the first commit of the second and
\* of the third batch carry on from the last id of the batch before
C26_Witness ==
    /\ Inserted
    /\ Len(commits) = 2 * batch_size + 1
    /\ commits_table[batch_size + 1].id = batch_size + 1
    /\ commits_table[2 * batch_size + 1].id = 2 * batch_size + 1
    /\ Len(commit_files_table) > 2 * batch_size
    /\ commit_files_table[Len(commit_files_table)].id = Len(commit_files_table)

(***************************************************************************)
(* generate_gource_log.py: main, lines 147-218.  A row of the query is     *)
(* (date, hash, author, file_path, insertions, deletions); the author      *)
(* plays no part and is left out.  The date of a commit is its place in    *)
(* the order of the query.                                                 *)
(***************************************************************************)
COLOR_ADD == "00FF00"

COLOR_DELETE == "FF3333"

COLOR_MODIFY == "CCCCFF"

COLOR_REWRITE == "FFAA00"

COLOR_EUREKA == "FFD700"

REWRITE_MIN_LINES == 10

REWRITE_RATIO == Rat(2, 10)

EUREKA_REWRITE_THRESHOLD == 4

\* is_heavy_rewrite with the test min_val / max_val >= REWRITE_RATIO
IsHeavyRewriteInclusiveRatio(insertions, deletions) ==
    IF insertions <= 0 \/ deletions <= 0 THEN FALSE
    ELSE LET min_val == Min(insertions, deletions)
             max_val == IF insertions > deletions THEN insertions ELSE deletions
         IN  /\ min_val >= REWRITE_MIN_LINES
             /\ RLeq(REWRITE_RATIO, Rat(min_val, max_val))

\* lines 45-50
is_heavy_rewrite(insertions, deletions) ==
    IF insertions <= 0 \/ deletions <= 0 THEN FALSE
    ELSE LET min_val == Min(insertions, deletions)
             max_val == IF insertions > deletions THEN insertions ELSE deletions
         IN  /\ min_val >= REWRITE_MIN_LINES
             /\ RGreater(Rat(min_val, max_val), REWRITE_RATIO)

\* d[key] = value on a dict
DictSet(d, key, value) ==
    [k \in DOMAIN d \cup {key} |-> IF k = key THEN value ELSE d[k]]

\* lines 155-161: pass 1 over the rows rws[k..]; st holds file_rewrite_count
\* and file_last_rewrite
RECURSIVE CountRewritesFrom(_, _, _)
CountRewritesFrom(rws, k, st) ==
    IF k > Len(rws) THEN st
    ELSE IF is_heavy_rewrite(rws[k].insertions, rws[k].deletions)
         THEN CountRewritesFrom(rws, k + 1,
                  [count |-> DictSet(st.count, rws[k].file_path,
                                 IF rws[k].file_path \in DOMAIN st.count
                                 THEN st.count[rws[k].file_path] + 1
                                 ELSE 1),
                   last |-> DictSet(st.last, rws[k].file_path, rws[k].hash)])
         ELSE CountRewritesFrom(rws, k + 1, st)

\* lines 166-167: the files with count >= EUREKA_REWRITE_THRESHOLD
HardProblemFiles(count) ==
    {fp \in DOMAIN count : count[fp] >= EUREKA_REWRITE_THRESHOLD}

\* lines 154-169 and 172-184: pass 1, the eureka set, the empty outputs
CountRewrites ==
    /\ pc = "gource_query"
    /\ \E st \in {CountRewritesFrom(rows, 1, [count |-> EmptyDict, last |-> EmptyDict])} :
          /\ rewrite_count' = st.count
          /\ file_last_rewrite' = st.last
          /\ eureka_set' = {<<fp, st.last[fp]>> : fp \in HardProblemFiles(st.count)}
          /\ hard_problem_files' = Cardinality(HardProblemFiles(st.count))
    /\ seen_files' = {}
    /\ lines' = << >>
    /\ eureka_timestamps' = << >>
    /\ eureka_seen' = {}
    /\ row_no' = 0
    /\ pc' = "gource_emit"
    /\ UNCHANGED <<trajVars, fnVars, ingestVars, clock, rows, file_touches, pair_no,
                   thrash_incidents, rapid_overwrites, file_thrash_counts,
                   total_file_touches>>

\* EntryOf with a deletion that leaves the file in seen_files
EntryOfDeletionKeepsSeen(row, seen, eureka) ==
    IF row.deletions > 0 /\ row.insertions = 0
    THEN [action |-> "D", color |-> COLOR_DELETE, seen |-> seen]
    ELSE IF <<row.file_path, row.hash>> \in eureka
    THEN [action |-> IF row.file_path \notin seen THEN "A" ELSE "M",
          color |-> COLOR_EUREKA, seen |-> seen \cup {row.file_path}]
    ELSE IF row.file_path \notin seen
    THEN [action |-> "A", color |-> COLOR_ADD, seen |-> seen \cup {row.file_path}]
    ELSE IF is_heavy_rewrite(row.insertions, row.deletions)
    THEN [action |-> "M", color |-> COLOR_REWRITE, seen |-> seen]
    ELSE [action |-> "M", color |-> COLOR_MODIFY, seen |-> seen]

\* lines 189-210: the action, the colour and the new seen_files of a row
EntryOf(row, seen, eureka) ==
    IF row.deletions > 0 /\ row.insertions = 0
    THEN [action |-> "D", color |-> COLOR_DELETE, seen |-> seen \ {row.file_path}]
    ELSE IF <<row.file_path, row.hash>> \in eureka
    THEN [action |-> IF row.file_path \notin seen THEN "A" ELSE "M",
          color |-> COLOR_EUREKA, seen |-> seen \cup {row.file_path}]
    ELSE IF row.file_path \notin seen
    THEN [action |-> "A", color |-> COLOR_ADD, seen |-> seen \cup {row.file_path}]
    ELSE IF is_heavy_rewrite(row.insertions, row.deletions)
    THEN [action |-> "M", color |-> COLOR_REWRITE, seen |-> seen]
    ELSE [action |-> "M", color |-> COLOR_MODIFY, seen |-> seen]

\* lines 186-213: one iteration of pass 2
EmitEntry ==
    /\ pc = "gource_emit"
    /\ row_no < Len(rows)
    /\ \E row \in {rows[row_no + 1]} :
       \E entry \in {EntryOf(row, seen_files, eureka_set)} :
          /\ seen_files' = entry.seen
          /\ lines' = Append(lines, [timestamp |-> row.date,
                                     action |-> entry.action,
                                     file_path |-> row.file_path,
                                     color |-> entry.color])
          /\ IF entry.color = COLOR_EUREKA /\ row.file_path \notin eureka_seen
             THEN /\ eureka_seen' = eureka_seen \cup {row.file_path}
                  /\ eureka_timestamps' = Append(eureka_timestamps, row.date)
             ELSE UNCHANGED <<eureka_seen, eureka_timestamps>>
    /\ row_no' = row_no + 1
    /\ UNCHANGED <<pc, rewrite_count, file_last_rewrite, eureka_set,
                   hard_problem_files>>
    /\ UNCHANGED <<trajVars, fnVars, ingestVars, coordVars>>

\* list.sort() on a list of integers
RECURSIVE SortedInts(_)
SortedInts(xs) ==
    IF xs = << >> THEN << >>
    ELSE LET low == CHOOSE i \in DOMAIN xs : \A j \in DOMAIN xs : xs[i] <= xs[j]
         IN  <<xs[low]>>
             \o SortedInts([i \in 1..(Len(xs) - 1) |->
                               IF i < low THEN xs[i] ELSE xs[i + 1]])

\* lines 215-218: the loop is over, the eureka timestamps are sorted
CloseLog ==
    /\ pc = "gource_emit"
    /\ row_no = Len(rows)
    /\ eureka_timestamps' = SortedInts(eureka_timestamps)
    /\ pc' = "gource_done"
    /\ UNCHANGED <<rewrite_count, file_last_rewrite, eureka_set, hard_problem_files,
                   seen_files, lines, eureka_seen, row_no>>
    /\ UNCHANGED <<trajVars, fnVars, ingestVars, coordVars>>

(***************************************************************************)
(* SpecGource: main on every log of at most MaxEntries touches.  A commit  *)
(* touches a file at most once (git numstat lists a path once per commit); *)
(* the rows come in the order of the query, by commit and then by          *)
(* commit_files.id.                                                        *)
(***************************************************************************)
MaxEntries == 5

\* (insertions, deletions) of the touches of the first file: a pure
\* deletion, a heavy rewrite at both thresholds, a rewrite at ratio 0.2
FirstFileStats == {<<0, 5>>, <<10, 49>>, <<10, 50>>}

\* of the second file: no line counted, 9 lines each way
SecondFileStats == {<<0, 0>>, <<9, 9>>}

GourceRow(date, fpath, st) ==
    [date |-> date, hash |-> date, file_path |-> fpath,
     insertions |-> st[1], deletions |-> st[2]]

LastDate == IF rows = << >> THEN 0 ELSE rows[Len(rows)].date

\* lines 147-152: fetchall() receives the next row of the query
FetchTouch ==
    /\ pc = "gource_query"
    /\ Len(rows) < MaxEntries
    /\ \/ \E st \in FirstFileStats :
             rows' = Append(rows, GourceRow(LastDate + 1, FilePaths[1], st))
       \/ \E st \in SecondFileStats :
             rows' = Append(rows, GourceRow(LastDate + 1, FilePaths[2], st))
       \/ /\ rows # << >>
          /\ \A k \in DOMAIN rows :
                rows[k].date = LastDate => rows[k].file_path = FilePaths[1]
          /\ \E st \in SecondFileStats :
                rows' = Append(rows, GourceRow(LastDate, FilePaths[2], st))
    /\ UNCHANGED <<pc, trajVars, fnVars, ingestVars, gourceVars, clock,
                   file_touches, pair_no, thrash_incidents, rapid_overwrites,
                   file_thrash_counts, total_file_touches>>

GourceInit ==
    /\ pc = "gource_query"
    /\ rows = << >>
    /\ clock = None
    /\ file_touches = None
    /\ pair_no = None
    /\ thrash_incidents = None
    /\ rapid_overwrites = None
    /\ file_thrash_counts = None
    /\ total_file_touches = None
    /\ GourceIdle
    /\ TrajIdle
    /\ FnIdle
    /\ IngestIdle

GourceNext == FetchTouch \/ CountRewrites \/ EmitEntry \/ CloseLog

SpecGource == GourceInit /\ [][GourceNext]_vars

(***************************************************************************)
(* Claims about the gource log (SpecGource)                                *)
(***************************************************************************)
\* pass 2 is running or over: lines[k] is the entry of rows[k]
Emitting == pc \in {"gource_emit", "gource_done"}

LogClosed == pc = "gource_done"

PureDeletion(k) == rows[k].deletions > 0 /\ rows[k].insertions = 0

SameFile(j, k) == lines[j].file_path = lines[k].file_path

DeletedBetween(j, k) ==
    \E z \in (j + 1)..(k - 1) : SameFile(z, k) /\ lines[z].action = "D"

\* the file of entry k is in the seen set when entry k is made: an earlier
\* entry drew it and no deletion of it came since
DrawnBefore(k) ==
    \E j \in 1..(k - 1) :
        SameFile(j, k) /\ lines[j].action # "D" /\ ~DeletedBetween(j, k)

\* C27: an entry is 'D' and red exactly when its touch is a pure deletion
\* (deletions > 0, insertions = 0), and the file then leaves the seen set;
\* any other touch of a file that is not in the seen set is an 'A', green
\* unless it is the file's eureka entry; so an 'M' of a file always follows
\* an 'A' of that file with no 'D' in between, and two 'A' of one file have
\* a 'D' between them.
C27_ColouringStateMachine ==
    Emitting =>
        /\ \A k \in DOMAIN lines :
              /\ lines[k].action = "D" <=> PureDeletion(k)
              /\ lines[k].color = COLOR_DELETE <=> PureDeletion(k)
              /\ ~PureDeletion(k) => (lines[k].action = "A" <=> ~DrawnBefore(k))
              /\ lines[k].action = "A" =>
                    IF <<rows[k].file_path, rows[k].hash>> \in eureka_set
                    THEN lines[k].color = COLOR_EUREKA
                    ELSE lines[k].color = COLOR_ADD
              /\ lines[k].action = "M" =>
                    \E j \in 1..(k - 1) :
                        /\ SameFile(j, k)
                        /\ lines[j].action = "A"
                        /\ ~DeletedBetween(j, k)
              /\ \A j \in 1..(k - 1) :
                    (SameFile(j, k) /\ lines[j].action = "A" /\ lines[k].action = "A")
                        => DeletedBetween(j, k)
        /\ \A f \in DOMAIN FilePaths :
              FilePaths[f] \in seen_files
                 <=> \E j \in DOMAIN lines :
                        /\ lines[j].file_path = FilePaths[f]
                        /\ lines[j].action # "D"
                        /\ \A z \in (j + 1)..Len(lines) :
                              ~(SameFile(z, j) /\ lines[z].action = "D")

\* one file drawn, modified, deleted and drawn again
C27_Witness ==
    /\ LogClosed
    /\ \E k \in DOMAIN lines :
          /\ k + 3 \in DOMAIN lines
          /\ \A z \in k..(k + 3) : SameFile(z, k)
          /\ lines[k].action = "A"
          /\ lines[k + 1].action = "M"
          /\ lines[k + 2].action = "D"
          /\ lines[k + 3].action = "A"

\* min(ins, del) >= 10 and min / max > 0.2, in integers
HeavyRow(k) ==
    /\ rows[k].insertions >= 10
    /\ rows[k].deletions >= 10
    /\ 5 * rows[k].insertions > rows[k].deletions
    /\ 5 * rows[k].deletions > rows[k].insertions

HeavyRowsOf(fpath) == {k \in DOMAIN rows : rows[k].file_path = fpath /\ HeavyRow(k)}

HardFiles ==
    {FilePaths[f] : f \in {g \in DOMAIN FilePaths :
                              Cardinality(HeavyRowsOf(FilePaths[g])) >= 4}}

LastHeavyRewriteOfHardFile(k) ==
    /\ rows[k].file_path \in HardFiles
    /\ k \in HeavyRowsOf(rows[k].file_path)
    /\ \A z \in HeavyRowsOf(rows[k].file_path) : z <= k

====
